---- MODULE Spec2Model ----
(***************************************************************************)
(* A model of the super-rss update pipeline: the orchestrator              *)
(* RssPlugin.updateAllFeeds (src/src/main.ts), the persistence layer       *)
(* saveFeedItem / cleanupOldFiles with its per-folder ledger               *)
(* (src/unnamed/part_002, the plugin's fileSaver), and the settings        *)
(* handlers that change what a run sees.                                   *)
(*                                                                         *)
(* Time is counted in minutes, the finest retention unit of the source,    *)
(* where the source counts milliseconds: DB_TTL_MS in milliseconds does    *)
(* not fit TLC's 32-bit integers.  Every duration of the source is a whole *)
(* number of minutes, so the scaling changes no comparison.                *)
(*                                                                         *)
(* Strings that the code transforms (links, rendered frontmatter values)   *)
(* are sequences of one-character strings.                                 *)
(***************************************************************************)
EXTENDS Integers, Sequences, FiniteSets, TLC

\* ------------------------------------------------------------------ bounds

\* How many times the clock may advance in one behaviour.
MaxTicks == 1

\* How many entries the configured feed list may hold.
MaxFeeds == 2

\* How many times the user may step in during one behaviour: touch a note
\* (edit or delete it) or change a setting (general tab, edit-feed modal).
\* How many saveSettings calls may await saveData at once.
MaxPendingSaves == 2

\* How many timers of unloaded plugin instances may be left when the plugin
\* is enabled again.
MaxOrphans == 1

MaxUserOps == 1

\* ---------------------------------------------------------------- durations

minute == 1
hour == minute * 60
day == hour * 24

toMilliseconds(value, unit) ==
    CASE unit = "minutes" -> value * minute
      [] unit = "hours"   -> value * hour
      [] unit = "days"    -> value * day
      [] unit = "months"  -> value * day * 30

DB_TTL_MS == 90 * 24 * 60 * minute

\* The clock advances by 31 days, which outlives the 30-day retention the
\* settings toggles install, or by 93 days, which outlives DB_TTL_MS.
TickSteps == {31 * day, 93 * day}

\* Date.now() is never 0; the clock of the model starts well after the epoch,
\* so that a timestamp is truthy exactly as in the source.
StartTime == 200 * day

\* `undefined` for an optional number (deletedAt, autoCleanupValue, lastUpdated).
Undefined == 0

\* Date.parse of a string that is no date.
NaN == -1

\* ------------------------------------------------------------------ strings

DQ == "\""
BS == "\\"

RECURSIVE escapeYamlValue(_)
escapeYamlValue(s) ==
    IF s = <<>> THEN <<>>
    ELSE (IF Head(s) = DQ THEN <<BS, DQ>> ELSE <<Head(s)>>) \o escapeYamlValue(Tail(s))

\* applyTemplate, isYaml = true, on the token {{link}}.
YamlLink(link) == <<DQ>> \o escapeYamlValue(link) \o <<DQ>>

RECURSIVE TrimLeft(_)
TrimLeft(s) == IF s # <<>> /\ Head(s) = " " THEN TrimLeft(Tail(s)) ELSE s

RECURSIVE TrimRight(_)
TrimRight(s) ==
    IF s # <<>> /\ s[Len(s)] = " " THEN TrimRight(SubSeq(s, 1, Len(s) - 1)) ELSE s

Trim(s) == TrimRight(TrimLeft(s))

\* String.prototype.toLowerCase on the values a property line holds.
toLowerCase(v) ==
    CASE v = "True" -> "true"
      [] v = "TRUE" -> "true"
      [] OTHER      -> v

\* ------------------------------------------------------------------- dates

\* A date string: empty, not a date, or the text of an instant.
EmptyDate == [kind |-> "empty", t |-> 0]
BadDate == [kind |-> "bad", t |-> 0]
DateAt(t) == [kind |-> "date", t |-> t]

DateParse(s) == IF s.kind = "date" THEN s.t ELSE NaN

\* applyTemplate's datePub: the instant reformatted when it parses, the
\* original string otherwise.
RenderDatePub(pubDate) ==
    IF pubDate.kind = "empty" THEN EmptyDate
    ELSE IF DateParse(pubDate) # NaN THEN DateAt(DateParse(pubDate))
    ELSE pubDate

\* ------------------------------------------------------------------- items

\* What each feed URL serves, unchanged over a behaviour.  Feed "a" serves an
\* item published long ago and one published at the start of the behaviour;
\* feed "b" serves an item whose date does not parse.
Served(url) ==
    CASE url = "a" ->
            << [link |-> <<"x">>, title |-> <<"p">>, pubDate |-> DateAt(StartTime - 100 * day)],
               [link |-> <<"y">>, title |-> <<"q">>, pubDate |-> DateAt(StartTime)] >>
      [] url = "b" ->
            << [link |-> <<"z">>, title |-> <<"r">>, pubDate |-> BadDate] >>

Urls == {"a", "b"}

AllItems == UNION {{Served(u)[i] : i \in 1..Len(Served(u))} : u \in Urls}

\* ------------------------------------------------------------------- paths

\* A path is the sequence of its segments.
DEFAULT_folderPath == <<"RSS">>

\* settings.folderPath is never edited in the model; sanitizing "RSS" yields it.
sanitizeFolderPath(path) == IF path = <<>> THEN DEFAULT_folderPath ELSE path

\* The title the feed at `url` announces; add-feed takes it as the feed's name.
FeedTitle(url) == IF url = "a" THEN "A" ELSE "B"

\* Feeds of the model belong to no group and have no custom folder.
resolveFeedPath(feed) == sanitizeFolderPath(DEFAULT_folderPath) \o <<feed.name>>

Folders == {DEFAULT_folderPath} \cup {DEFAULT_folderPath \o <<FeedTitle(u)>> : u \in Urls}

IsPrefix(p, q) == Len(p) <= Len(q) /\ SubSeq(q, 1, Len(p)) = p

\* A file's path is its folder and its name.
\* f.path.startsWith(normalizedFolder + '/')
Under(folder, path) == IsPrefix(folder, path.dir)

\* The file-name template is the default, {{title}}: the titles of the model
\* hold no character that sanitizeFileName replaces or trims.
sanitizeFileName(name) == Trim(name)

FileNameOf(item) == sanitizeFileName(item.title) \o <<".md">>

\* ensureFolder: every prefix of the path exists afterwards.
Prefixes(path) == {SubSeq(path, 1, n) : n \in 1..Len(path)}

\* ---------------------------------------------------------------- settings

DEFAULT_SETTINGS ==
    [ autoCleanupValue             |-> 0,
      autoCleanupUnit              |-> "days",
      autoCleanupDateField         |-> "datesaved",
      autoCleanupCheckProperty     |-> FALSE,
      autoCleanupCheckPropertyName |-> "Mark as Read",
      downloadImages               |-> FALSE,
      updateIntervalValue          |-> 30,
      updateIntervalUnit           |-> "minutes" ]

\* The frontmatter template of DEFAULT_SETTINGS has the lines
\* "Upload Date: {{datepub}}" and "Link: {{link}}" and no line for the
\* protected property.
NoProperty == "absent"

\* A feed as add-feed creates it.
NewFeed(url, t) ==
    [ name                 |-> FeedTitle(url),
      url                  |-> url,
      enabled              |-> TRUE,
      archived             |-> FALSE,
      deleted              |-> FALSE,
      deletedAt            |-> Undefined,
      lastUpdated          |-> t,
      autoCleanupValue     |-> Undefined,
      autoCleanupUnit      |-> "undefined",
      autoCleanupDateField |-> "undefined" ]

\* ----------------------------------------------------------------- ledger

EmptyDb == [k \in {} |-> 0]

DbHas(db, k) == k \in DOMAIN db

DbPut(db, k, e) == [x \in DOMAIN db \cup {k} |-> IF x = k THEN e ELSE db[x]]

\* Fault: the entry is pruned on the 90th day.
PruneExpired_AtNinety(e, t) ==
    e.deleted /\ e.deletedAt # Undefined /\ t - e.deletedAt >= DB_TTL_MS

\* saveFeedDb's pruning loop at time t.
PruneExpired(e, t) == e.deleted /\ e.deletedAt # Undefined /\ t - e.deletedAt > DB_TTL_MS

PruneDb(db, t) == [k \in {x \in DOMAIN db : ~PruneExpired(db[x], t)} |-> db[k]]

\* Fault: the text of an unparseable ledger file is taken for the ledger.
loadFeedDb_NoCatch(vault, folderPath) == vault.ledger[folderPath]

\* loadFeedDb: the parsed content of the folder's .feed-db.json; {} when the
\* file is missing or when reading or parsing it threw.
loadFeedDb(vault, folderPath) ==
    IF folderPath \in vault.corrupt THEN EmptyDb ELSE vault.ledger[folderPath]

\* Fault: the deleted mark of the ledger is not consulted.
IsDeletedInDb_Skip(db, k) == FALSE

\* Fault: any ledger entry, deleted or not, rejects the item.
IsDeletedInDb_AnyEntry(db, k) == DbHas(db, k)

\* existingEntry?.deleted
IsDeletedInDb(db, k) == DbHas(db, k) /\ db[k].deleted

\* item.link || item.title || fileName
ItemKey(item) ==
    IF item.link # <<>> THEN item.link
    ELSE IF item.title # <<>> THEN item.title
    ELSE FileNameOf(item)

\* ------------------------------------------------------------------- state

VARIABLES
    now,            \* Date.now(), in minutes
    ticks,          \* how often the clock has advanced
    settings,       \* the global cleanup settings of PluginSettings
    feeds,          \* settings.feeds, a sequence of FeedConfig
    folders,        \* the folders of the vault
    files,          \* the markdown files of the vault: path -> content and stat
    ledger,         \* folder -> the FeedDb its .feed-db.json held when last written
    corrupt,        \* the folders whose .feed-db.json no longer parses
    isUpdating,     \* RssPlugin.isUpdating
    activeRuns,     \* activations of updateAllFeeds that passed the guard and have not ended
    pc,             \* where the active run stands
    queue,          \* enabledFeeds of the active run (the urls of the feed objects)
    fi,             \* index of the feed in progress
    items,          \* the items of the feed in progress
    ii,             \* index of the next item
    newItemsCount,  \* newItemsCount of the feed in progress
    feedLog,        \* per feed of the active run: what the run did for it
    lastSave,       \* the latest saveFeedItem call and what it returned
    lastTrigger,    \* the latest trigger and whether it started a run
    lastNotice,     \* the latest Notice
    globalPasses,   \* cleanup passes over the root folder made by the latest run
    requests,       \* the network requests that wait for their response
    accepted,       \* urls of the feeds that had an item accepted by saveFeedItem
    tombstoned,     \* <<folder, key>> that a ledger has marked deleted at some time
    cleaned,        \* <<folder, key>> of items whose saved file a cleanup pass deleted
    handDeleted,    \* <<folder, key>> of items whose saved file the user deleted by hand
    prevRunClean,   \* the latest run ended undisturbed and nothing changed since
    tainted,        \* the active run met a fault or a change of its environment
    userOps,        \* how often the user touched a file
    configOps,      \* how often the settings were changed
    lastRender,     \* the latest rendering of the feed list: a flip bit, the feeds it dropped
    timers,         \* the ids of the interval timers registered with the window
    intervalIds,    \* this.intervalIds
    life,           \* the plugin: "loaded" or "unloaded"
    pendingSaves,   \* saveSettings calls that await saveData
    arg,            \* the input of the function a behaviour applies
    ret             \* what the function returned

vars ==
    << now, ticks, settings, feeds, folders, files, ledger, corrupt, isUpdating,
       activeRuns,
       pc, queue, fi, items, ii, newItemsCount, feedLog, lastSave, lastTrigger,
       lastNotice, globalPasses, requests, accepted, tombstoned, cleaned, handDeleted,
       prevRunClean, tainted,
       userOps, configOps, lastRender, timers, intervalIds, life, pendingSaves,
       arg, ret >>

vaultVars == << folders, files, ledger, corrupt >>
runVars == << isUpdating, activeRuns, pc, queue, fi, items, ii, newItemsCount, feedLog >>
ghostVars == << accepted, tombstoned, cleaned, handDeleted >>
timerVars == << timers, intervalIds, life, pendingSaves >>
pureVars == << arg, ret >>
netVars == << requests >>
auxVars == << lastRender, netVars, timerVars, pureVars >>

\* ------------------------------------------------------------------- vault

FeedByUrl(url) ==
    LET i == CHOOSE j \in 1..Len(feeds) : feeds[j].url = url IN feeds[i]

\* feed.autoCleanupValue ?? settings.autoCleanupValue
ResolvedCleanupValue(feed) ==
    IF feed.autoCleanupValue # Undefined THEN feed.autoCleanupValue
    ELSE settings.autoCleanupValue

\* feed.autoCleanupUnit ?? settings.autoCleanupUnit
ResolvedCleanupUnit(feed) ==
    IF feed.autoCleanupUnit # "undefined" THEN feed.autoCleanupUnit
    ELSE settings.autoCleanupUnit

\* (!feedDateField || feedDateField === 'global') ? settings.autoCleanupDateField : feedDateField
ResolvedDateField(feed) ==
    IF feed.autoCleanupDateField \in {"undefined", "global"}
    THEN settings.autoCleanupDateField
    ELSE feed.autoCleanupDateField

\* Fault: the pre-save filter reads the global cleanup value and not the
\* feed's override.
PreSaveExpired_GlobalOnly(item, feed) ==
    /\ settings.autoCleanupValue > 0
    /\ ~settings.autoCleanupCheckProperty
    /\ item.pubDate.kind # "empty"
    /\ ResolvedDateField(feed) = "datepub"
    /\ DateParse(item.pubDate) # NaN
    /\ DateParse(item.pubDate)
         < now - toMilliseconds(settings.autoCleanupValue, settings.autoCleanupUnit)

\* The pre-save date filter of saveFeedItem: TRUE when the item is rejected as
\* already older than the retention cutoff.
PreSaveExpired(item, feed) ==
    /\ ResolvedCleanupValue(feed) > 0
    /\ ~settings.autoCleanupCheckProperty
    /\ item.pubDate.kind # "empty"
    /\ ResolvedDateField(feed) = "datepub"
    /\ DateParse(item.pubDate) # NaN
    /\ DateParse(item.pubDate)
         < now - toMilliseconds(ResolvedCleanupValue(feed), ResolvedCleanupUnit(feed))

\* The file saveFeedItem writes for an item: the frontmatter block of the
\* default template and the stat of a file created now.
RenderFile(item) ==
    [ fm    |-> TRUE,
      link  |-> YamlLink(item.link),
      pub   |-> RenderDatePub(item.pubDate),
      prop  |-> NoProperty,
      key   |-> ItemKey(item),     \* provenance: the ledger key of the item written
      mtime |-> now,
      ctime |-> now ]

\* saveFeedItem(vault, app, item, folderPath, settings, feed) under the I/O
\* fault `fault`: what it returns (or that it threw) and the vault it leaves.
\* Fault: the destination file is looked up before the ledger is consulted.
StepsToLedger_ExistsFirst(mkdir) ==
    << "applyTemplate fileName", "ensureFolder" >>
        \o (IF mkdir # {} THEN << "createFolder" >> ELSE <<>>)
        \o << "exists", "loadFeedDb" >>

\* The operations saveFeedItem performs up to its ledger lookup: the file name
\* is rendered, the folder ensured (created when a prefix is missing), the
\* ledger loaded.
StepsToLedger(mkdir) ==
    << "applyTemplate fileName", "ensureFolder" >>
        \o (IF mkdir # {} THEN << "createFolder" >> ELSE <<>>)
        \o << "loadFeedDb" >>

\* Fault: the destination is never found to exist.
Exists_Never(vault, filePath) == FALSE

\* vault.adapter.exists(filePath)
Exists(vault, filePath) == filePath \in DOMAIN vault.files

saveFeedItem(item, folderPath, feed, fault) ==
    LET filePath == [dir |-> folderPath, name |-> FileNameOf(item)]
        mkdir    == Prefixes(folderPath) \ folders
        itemLink == ItemKey(item)
        same     == [folders |-> folders, files |-> files, ledger |-> ledger,
                     corrupt |-> corrupt]
        db       == loadFeedDb(same, folderPath)
        made     == [same EXCEPT !.folders = folders \cup Prefixes(folderPath)]
        named    == << "applyTemplate fileName", "ensureFolder" >>
        loaded   == StepsToLedger(mkdir)
        rendered == loaded \o << "exists" >>
                           \o (IF settings.downloadImages
                               THEN << "downloadImageLocally" >> ELSE <<>>)
                           \o << "applyTemplate frontmatter", "applyTemplate body",
                                 "create" >>
    IN  IF fault = "mkdir" /\ mkdir # {}
        THEN same @@ [result |-> "threw", steps |-> Append(named, "createFolder")]
        ELSE IF IsDeletedInDb(db, itemLink)
        THEN made @@ [result |-> "deleted", steps |-> loaded]
        ELSE IF PreSaveExpired(item, feed)
        THEN [made EXCEPT !.ledger[folderPath] =
                 PruneDb(DbPut(db, itemLink,
                     [savedAt |-> 0, deleted |-> TRUE, deletedAt |-> now]), now),
                          !.corrupt = @ \ {folderPath}]
             @@ [result |-> "expired", steps |-> Append(loaded, "saveFeedDb")]
        ELSE IF Exists(same, filePath)
        THEN made @@ [result |-> "exists", steps |-> Append(loaded, "exists")]
        ELSE IF fault = "write"
        THEN made @@ [result |-> "threw", steps |-> rendered]
        ELSE [made EXCEPT
                 !.files = [p \in DOMAIN files \cup {filePath} |->
                               IF p = filePath THEN RenderFile(item) ELSE files[p]],
                 !.ledger[folderPath] =
                     PruneDb(DbPut(db, itemLink,
                         [savedAt |-> now, deleted |-> FALSE, deletedAt |-> Undefined]), now),
                 !.corrupt = @ \ {folderPath}]
             @@ [result |-> "saved", steps |-> Append(rendered, "saveFeedDb")]

\* readPubDateFromFrontmatter: the date of the file's publish-date line, or null.
readPubDateFromFrontmatter(f) == IF f.fm THEN DateParse(f.pub) ELSE NaN

\* Fault: a note without the property line is not protected.
isFileProtected_FieldOptional(f) ==
    IF ~f.fm THEN TRUE
    ELSE IF f.prop = NoProperty THEN FALSE
    ELSE toLowerCase(f.prop) # "true"

\* isFileProtected(vault, file, propertyName)
isFileProtected(f) ==
    IF ~f.fm THEN TRUE
    ELSE IF f.prop = NoProperty THEN TRUE
    ELSE toLowerCase(f.prop) # "true"

\* The timestamp cleanupOldFiles compares with the cutoff.
FileTime(f, dateField) ==
    IF dateField = "datepub"
    THEN (IF readPubDateFromFrontmatter(f) # NaN THEN readPubDateFromFrontmatter(f) ELSE f.ctime)
    ELSE f.mtime

\* The link cleanupOldFiles reads from the file's frontmatter ("" when none).
ReadLink(f) == IF f.fm THEN Trim(f.link) ELSE <<>>

\* fileTime >= cutoff: the file is too recent for the pass.
IsRecent(f, value, unit, dateField) ==
    FileTime(f, dateField) >= now - toMilliseconds(value, unit)

\* usePropertyCheck and isFileProtected: the gate keeps the file.
GateKeeps(f) == settings.autoCleanupCheckProperty /\ isFileProtected(f)

\* The ledger entry of a deleted file's link after the pass.
MarkDeleted(db, k) ==
    IF DbHas(db, k)
    THEN [db[k] EXCEPT !.deleted = TRUE, !.deletedAt = now]
    ELSE [savedAt |-> 0, deleted |-> TRUE, deletedAt |-> now]

\* The files a pass over folderPath tries to delete: under the folder, older
\* than the cutoff, not kept by the gate.
Candidates(vault, folderPath, value, unit, dateField) ==
    { p \in DOMAIN vault.files :
        /\ Under(folderPath, p)
        /\ ~IsRecent(vault.files[p], value, unit, dateField)
        /\ ~GateKeeps(vault.files[p]) }

\* The loop's effect when the files of `gone` are deleted: each deletion marks
\* the link read from the file in the folder's ledger, which is saved when it
\* changed.
Sweep(vault, folderPath, gone) ==
    LET links == {ReadLink(vault.files[p]) : p \in gone} \ {<<>>}
        db    == loadFeedDb(vault, folderPath)
        db2   == [k \in DOMAIN db \cup links |->
                    IF k \in links THEN MarkDeleted(db, k) ELSE db[k]]
    IN  IF folderPath \notin vault.folders THEN vault
        ELSE [vault EXCEPT
                 !.files = [p \in DOMAIN vault.files \ gone |-> vault.files[p]],
                 !.ledger[folderPath] = IF links = {} THEN @ ELSE PruneDb(db2, now),
                 !.corrupt = IF links = {} THEN @ ELSE @ \ {folderPath}]

\* Fault: the first deletion that fails ends the pass.
cleanupOldFilesStuck_Abort(vault, folderPath, value, unit, dateField, stuck) ==
    LET all == Candidates(vault, folderPath, value, unit, dateField)
    IN  Sweep(vault, folderPath, IF all \cap stuck # {} THEN {} ELSE all)

\* cleanupOldFiles when vault.delete throws for the files of `stuck`: the
\* catch inside the loop logs the error and the loop goes on.
cleanupOldFilesStuck(vault, folderPath, value, unit, dateField, stuck) ==
    Sweep(vault, folderPath,
          Candidates(vault, folderPath, value, unit, dateField) \ stuck)

\* cleanupOldFiles(vault, folderPath, value, unit, dateField, settings): the
\* vault it leaves when every deletion succeeds.
cleanupOldFiles(vault, folderPath, value, unit, dateField) ==
    cleanupOldFilesStuck(vault, folderPath, value, unit, dateField, {})

\* ----------------------------------------------------------------- ghosts

Vault == [folders |-> folders, files |-> files, ledger |-> ledger, corrupt |-> corrupt]

\* The <<folder, key>> pairs a ledger marks deleted.
Tombs(l) == UNION {{<<d, k>> : k \in {x \in DOMAIN l[d] : l[d][x].deleted}} : d \in Folders}

\* The items whose file, its frontmatter as saveFeedItem wrote it, is among the
\* files of `before` and not of `after`.
Removed(before, after) ==
    {<<p.dir, before[p].key>> : p \in {q \in DOMAIN before \ DOMAIN after : before[q].fm}}

\* The vault becomes v; `byCleanup` tells whether a cleanup pass made the step.
SetVault(v, byCleanup) ==
    /\ folders' = v.folders
    /\ files' = v.files
    /\ ledger' = v.ledger
    /\ corrupt' = v.corrupt
    /\ tombstoned' = tombstoned \cup Tombs(v.ledger)
    /\ cleaned' = IF byCleanup THEN cleaned \cup Removed(files, v.files) ELSE cleaned
    /\ handDeleted' = handDeleted

\* Something outside the run changed what a run sees.
Disturb == prevRunClean' = FALSE /\ tainted' = TRUE

NoSave == [key |-> <<>>, folder |-> <<>>, result |-> "none", steps |-> <<>>]

\* -------------------------------------------------------------------- Init

\* The settings loadSettings may find stored: cleanup off or at the 30 days the
\* toggle installs, either date field, the gate on or off.
StoredSettings ==
    { [DEFAULT_SETTINGS EXCEPT !.autoCleanupValue = v,
                               !.autoCleanupDateField = d,
                               !.autoCleanupCheckProperty = g] :
        v \in {0, 30}, d \in {"datesaved", "datepub"}, g \in BOOLEAN }

Loaded ==
    /\ now = StartTime
    /\ ticks = 0
    /\ settings \in StoredSettings
    /\ feeds = <<>>
    /\ folders = {}
    /\ files = EmptyDb
    /\ ledger = [d \in Folders |-> EmptyDb]
    /\ corrupt = {}
    /\ isUpdating = FALSE
    /\ activeRuns = 0
    /\ pc = "idle"
    /\ queue = <<>>
    /\ fi = 0
    /\ items = <<>>
    /\ ii = 0
    /\ newItemsCount = 0
    /\ feedLog = <<>>
    /\ lastSave = NoSave
    /\ lastTrigger = "none"
    /\ lastNotice = "none"
    /\ globalPasses = 0
    /\ requests = {}
    /\ accepted = {}
    /\ tombstoned = {}
    /\ cleaned = {}
    /\ handDeleted = {}
    /\ prevRunClean = FALSE
    /\ tainted = FALSE
    /\ userOps = 0
    /\ configOps = 0
    /\ lastRender = [flip |-> FALSE, dropped |-> 0]
    /\ timers = {1}
    /\ intervalIds = <<1>>
    /\ life = "loaded"
    /\ pendingSaves = 0

\* No function is being applied.
NoCall == [fn |-> "none"]
NotDone == [done |-> FALSE]

Init == Loaded /\ arg = NoCall /\ ret = NotDone

\* What a step that applies one function leaves alone.
PureFrame ==
    UNCHANGED << now, ticks, settings, feeds, runVars, lastSave, lastTrigger,
                 lastNotice, globalPasses, accepted, prevRunClean, tainted, userOps, configOps,
                 lastRender, netVars, timerVars, arg >>

\* --------------------------------------------------------------- saveFeedDb

\* The entries a ledger may hold when it is written: saved, deleted 89, 90 or
\* 91 days ago, deleted with no date, restored.
LedgerEntries ==
    { [savedAt |-> 0, deleted |-> b, deletedAt |-> t] :
        b \in BOOLEAN,
        t \in {Undefined, StartTime - 91 * day, StartTime - 90 * day, StartTime - 89 * day} }

LedgerKeys == { << "x" >>, << "y" >>, << "z" >> }

\* The ledgers over those keys and entries.
Ledgers == UNION { [ks -> LedgerEntries] : ks \in SUBSET LedgerKeys }

\* saveFeedDb(vault, folderPath, db): the pruned db is written to the folder's
\* .feed-db.json.
saveFeedDb ==
    /\ arg.fn = "saveFeedDb"
    /\ ~ret.done
    /\ SetVault([Vault EXCEPT !.ledger[arg.folderPath] = PruneDb(arg.db, now),
                              !.corrupt = @ \ {arg.folderPath}], FALSE)
    /\ ret' = [done |-> TRUE]
    /\ PureFrame

InitLedgerWrite ==
    /\ Loaded
    /\ settings = DEFAULT_SETTINGS
    /\ arg \in { [fn |-> "saveFeedDb", folderPath |-> d, db |-> db] :
                    d \in Folders, db \in Ledgers }
    /\ ret = NotDone

SpecLedgerWrite == InitLedgerWrite /\ [][saveFeedDb]_vars

\* ------------------------------------------------------------ saveFeedItem

\* saveFeedItem called again and again for feed "a": with the items it serves
\* and with a later item of another link whose title, and so whose file name,
\* is that of the first; between the calls the settings may change.
Twin == [link |-> <<"w">>, title |-> <<"p">>, pubDate |-> DateAt(StartTime)]

SaveItems == {Served("a")[i] : i \in 1..Len(Served("a"))} \cup {Twin}

SaveFeedItem(item) ==
    /\ arg.fn = "saveFeedItem"
    /\ LET r == saveFeedItem(item, resolveFeedPath(arg.feed), arg.feed, "none")
       IN  /\ SetVault(r, FALSE)
           /\ ret' = [done |-> TRUE, item |-> item, result |-> r.result,
                      steps |-> r.steps]
    /\ PureFrame

InitSave ==
    /\ Loaded
    /\ arg = [fn |-> "saveFeedItem", feed |-> NewFeed("a", StartTime)]
    /\ ret = NotDone

\* ------------------------------------------------------------------ images

\* An image url: how it starts ("http", "//", "relative", or "empty" for the
\* empty string), its host, the name and the extension of its file.
ImgUrl(kind, host, file, ext) == [kind |-> kind, host |-> host, file |-> file, ext |-> ext]

NoUrl == ImgUrl("empty", "", "", "")

Absent == [absent |-> TRUE]

\* url.startsWith('http')
StartsWithHttp(url) == url.kind = "http"

\* url.includes('img.youtube.com') || url.includes('ytimg.com')
IsYoutube(url) == url.host \in {"img.youtube.com", "i.ytimg.com"}

\* url.replace(/(hqdefault|mqdefault|sddefault|default|hq720|maxresdefault)(\.jpg)/i, name + '$2')
ReplaceThumbName(url, name) ==
    IF /\ url.file \in {"hqdefault", "mqdefault", "sddefault", "default", "hq720",
                         "maxresdefault"}
       /\ url.ext = "jpg"
    THEN [url EXCEPT !.file = name]
    ELSE url

\* /\.(jpg|jpeg|png|webp|gif|svg|avif)/i.test(candidate)
LooksLikeImage(url) == url.ext \in {"jpg", "jpeg", "png", "webp", "gif", "svg", "avif"}

\* type.startsWith('image/')
IsImageMime(type) == type \in {"image/png", "image/jpeg"}

\* Fault: what is thrown inside a try block leaves the function.
TryCatch_Rethrow(threw) == threw

\* try { ... } catch { }: whether what the block throws leaves the function.
TryCatch(threw) == FALSE

\* parseInt(res.headers?.['content-length'] ?? '99999', 10)
ContentLength(res) == IF res.contentLength = Undefined THEN 99999 ELSE res.contentLength

\* res.status === 200 && length > 5000, for a request that returned or threw.
ProbePasses(res) == ~res.threw /\ res.status = 200 /\ ContentLength(res) > 5000

\* upgradeYoutubeThumbnail(url), where probe.maxres and probe.sd are what a
\* request for that variant meets: the url it returns, the requests it made,
\* whether it threw.
upgradeYoutubeThumbnail(url, probe) ==
    LET maxres == ReplaceThumbName(url, "maxresdefault")
        sd     == ReplaceThumbName(url, "sddefault")
        first  == IF maxres # url THEN << maxres >> ELSE <<>>
        both   == IF sd # url THEN Append(first, sd) ELSE first
    IN  IF ~IsYoutube(url)
        THEN [value |-> url, requests |-> <<>>, threw |-> FALSE]
        ELSE IF maxres # url /\ ProbePasses(probe.maxres)
        THEN [value |-> maxres, requests |-> first, threw |-> FALSE]
        ELSE IF maxres # url /\ TryCatch(probe.maxres.threw)
        THEN [value |-> NoUrl, requests |-> first, threw |-> TRUE]
        ELSE IF sd # url /\ ProbePasses(probe.sd)
        THEN [value |-> sd, requests |-> both, threw |-> FALSE]
        ELSE IF sd # url /\ TryCatch(probe.sd.threw)
        THEN [value |-> NoUrl, requests |-> both, threw |-> TRUE]
        ELSE [value |-> url, requests |-> both, threw |-> FALSE]

\* getThumbnailFromMediaObj(media): media is absent, an element with a url
\* attribute, or a plain string.
getThumbnailFromMediaObj(media) ==
    IF media = Absent THEN NoUrl
    ELSE IF "url" \in DOMAIN media /\ media.url # NoUrl THEN media.url
    ELSE IF "text" \in DOMAIN media /\ StartsWithHttp(media.text) THEN media.text
    ELSE NoUrl

\* The candidate of one local tier of extractImageUrl.
TierCandidate(item, tier) ==
    CASE tier = "group" ->
            IF item.group # Absent
            THEN getThumbnailFromMediaObj(item.group.thumbnail) ELSE NoUrl
      [] tier = "thumbnail" -> getThumbnailFromMediaObj(item.thumbnail)
      [] tier = "content" ->
            IF item.content # Absent /\ item.content.url # NoUrl
                  /\ LooksLikeImage(item.content.url)
            THEN item.content.url ELSE NoUrl
      [] tier = "enclosure" ->
            IF item.enclosure # Absent /\ item.enclosure.url # NoUrl
                  /\ IsImageMime(item.enclosure.type)
            THEN item.enclosure.url ELSE NoUrl
      [] tier = "html" -> item.img

\* Fault: the enclosure is consulted before the media tags.
LocalTiers_EnclosureFirst == << "enclosure", "group", "thumbnail", "content", "html" >>

\* The local tiers in the order extractImageUrl consults them.
LocalTiers == << "group", "thumbnail", "content", "enclosure", "html" >>

\* Steps 1 to 5 of extractImageUrl: a tier is consulted while url is empty.
RECURSIVE LocalSearch(_, _, _)
LocalSearch(item, k, acc) ==
    IF k > Len(LocalTiers) \/ acc.url # NoUrl THEN acc
    ELSE LocalSearch(item, k + 1,
             [url       |-> TierCandidate(item, LocalTiers[k]),
              tier      |-> LocalTiers[k],
              consulted |-> Append(acc.consulted, LocalTiers[k])])

\* Step 6: the meta image of the item's page.
PageSearch(itemUrl, page) ==
    IF ~StartsWithHttp(itemUrl) THEN [url |-> NoUrl, requests |-> <<>>, threw |-> FALSE]
    ELSE IF page.threw
    THEN [url |-> NoUrl, requests |-> << itemUrl >>, threw |-> TryCatch(TRUE)]
    ELSE IF page.status = 200 /\ page.meta # NoUrl
    THEN [url |-> page.meta, requests |-> << itemUrl >>, threw |-> FALSE]
    ELSE [url |-> NoUrl, requests |-> << itemUrl >>, threw |-> FALSE]

\* Step 7: a protocol-relative url gets https:, a relative one is resolved
\* against the item's url when new URL accepts it.
CleanUrl(url, itemUrl) ==
    IF url.kind = "//" THEN [url EXCEPT !.kind = "http"]
    ELSE IF ~StartsWithHttp(url) /\ itemUrl # NoUrl /\ StartsWithHttp(itemUrl)
    THEN [url EXCEPT !.kind = "http", !.host = itemUrl.host]
    ELSE url

\* extractImageUrl(item, itemUrl) in a world where the item's page answers
\* `page` and the thumbnail variants answer `probe`.
extractImageUrl(item, itemUrl, page, probe) ==
    LET local == LocalSearch(item, 1, [url |-> NoUrl, tier |-> "none", consulted |-> <<>>])
        paged == IF local.url = NoUrl THEN PageSearch(itemUrl, page)
                 ELSE [url |-> NoUrl, requests |-> <<>>, threw |-> FALSE]
        found == IF local.url # NoUrl THEN local.url ELSE paged.url
        tier  == IF local.url # NoUrl THEN local.tier
                 ELSE IF paged.url # NoUrl THEN "page" ELSE "none"
        clean == IF found # NoUrl THEN CleanUrl(found, itemUrl) ELSE found
        up    == IF clean # NoUrl /\ IsYoutube(clean) /\ ~paged.threw
                 THEN upgradeYoutubeThumbnail(clean, probe)
                 ELSE [value |-> clean, requests |-> <<>>, threw |-> FALSE]
    IN  [done      |-> TRUE,
         threw     |-> paged.threw \/ up.threw,
         value     |-> IF paged.threw \/ up.threw THEN NoUrl ELSE up.value,
         candidate |-> found,
         tier      |-> tier,
         consulted |-> local.consulted,
         requests  |-> paged.requests \o up.requests]

\* What a media element of the model may be.
MediaObjs(urls) ==
    {Absent} \cup {[url |-> u] : u \in urls} \cup {[text |-> u] : u \in urls}

YtThumb(file) == ImgUrl("http", "i.ytimg.com", file, "jpg")

\* The raw items extractImageUrl is applied to.
RawItems ==
    { [group |-> g, thumbnail |-> t, content |-> c, enclosure |-> e, img |-> i] :
        g \in {Absent, [thumbnail |-> Absent], [thumbnail |-> [url |-> YtThumb("hqdefault")]],
               [thumbnail |-> [url |-> YtThumb("maxresdefault")]],
               [thumbnail |-> [url |-> YtThumb("sddefault")]]},
        t \in MediaObjs({ImgUrl("http", "a.example", "thumb", "jpg"),
                         ImgUrl("relative", "", "thumb", "jpg")}),
        c \in {Absent, [url |-> ImgUrl("http", "a.example", "clip", "mp4")],
               [url |-> ImgUrl("http", "a.example", "cover", "png")]},
        e \in {Absent,
               [type |-> "audio/mpeg", url |-> ImgUrl("http", "a.example", "show", "mp3")],
               [type |-> "image/png", url |-> ImgUrl("http", "a.example", "show", "png")]},
        i \in {NoUrl, ImgUrl("//", "cdn.example", "inline", "gif")} }

\* What a request for a thumbnail variant may meet.
ProbeOutcomes ==
    {[threw |-> TRUE, status |-> 0, contentLength |-> Undefined]} \cup
    { [threw |-> FALSE, status |-> s, contentLength |-> l] :
        s \in {200}, l \in {Undefined, NaN, 5000, 5001} } \cup
    {[threw |-> FALSE, status |-> 404, contentLength |-> 5001]}

\* What a request for the item's page may meet.
PageOutcomes ==
    {[threw |-> TRUE, status |-> 0, meta |-> NoUrl]} \cup
    { [threw |-> FALSE, status |-> s, meta |-> m] :
        s \in {200, 404}, m \in {NoUrl, ImgUrl("relative", "", "og", "png")} }

ItemUrls == {NoUrl, ImgUrl("http", "a.example", "post", "html")}

\* extractImageUrl is applied to the input the behaviour chose.
ExtractImageUrl ==
    /\ arg.fn = "extractImageUrl"
    /\ ~ret.done
    /\ ret' = extractImageUrl(arg.item, arg.itemUrl, arg.page, arg.probe)
    /\ UNCHANGED << vaultVars, tombstoned, cleaned, handDeleted >>
    /\ PureFrame

\* resolveImageExtension(contentType, url)
resolveImageExtension(contentType, url) ==
    CASE contentType = "image/jpeg" -> "jpg"
      [] contentType = "image/webp" -> "webp"
      [] contentType = "image/gif"  -> "gif"
      [] contentType = "image/svg+xml" -> "svg"
      [] contentType = "image/png"  -> "png"
      [] contentType = "image/avif" -> "avif"
      [] OTHER -> IF LooksLikeImage(url) THEN url.ext ELSE "png"

\* `[[${imagePath}]]`
StorageRef(imagePath) == [ref |-> imagePath]

\* `${prefix}${sanitizeFileName(fileName)}.${extension}`
ImagePath(folderPath, fileName, extension) ==
    [dir |-> folderPath, name |-> sanitizeFileName(fileName), ext |-> extension]

\* downloadImageLocally(vault, url, folderPath, fileName) in a world where
\* the request answers `response`, the vault holds the image files
\* `existing`, and creating the folder or the file fails as `mkdirFails` and
\* `writeFails` say.
downloadImageLocally(url, folderPath, fileName, response, existing, mkdirFails, writeFails) ==
    LET giveUp(reqs, t) ==
            [done |-> TRUE, threw |-> TryCatch(t), value |-> url, requests |-> reqs,
             created |-> {}]
        extension == resolveImageExtension(response.contentType, url)
        imagePath == ImagePath(folderPath, fileName, extension)
        sent      == << url >>
    IN  IF url = NoUrl \/ ~StartsWithHttp(url) THEN giveUp(<<>>, FALSE)
        ELSE IF response.threw THEN giveUp(sent, TRUE)
        ELSE IF response.status # 200 THEN giveUp(sent, FALSE)
        ELSE IF mkdirFails /\ folderPath # <<>> THEN giveUp(sent, TRUE)
        ELSE IF imagePath \in existing
        THEN [done |-> TRUE, threw |-> FALSE, value |-> StorageRef(imagePath),
              requests |-> sent, created |-> {}]
        ELSE IF writeFails THEN giveUp(sent, TRUE)
        ELSE [done |-> TRUE, threw |-> FALSE, value |-> StorageRef(imagePath),
              requests |-> sent, created |-> {imagePath}]

\* What a request for the image may meet.
ImageResponses ==
    {[threw |-> TRUE, status |-> 0, contentType |-> ""]} \cup
    { [threw |-> FALSE, status |-> s, contentType |-> c] :
        s \in {200, 404}, c \in {"image/jpeg", "text/html", ""} }

ImageFolders == { <<>>, << "attachments" >> }

ImageNames == { << "p" >>, << " ", "p" >> }

\* The image files the vault may hold before the call.
ImageFiles == { ImagePath(d, << "p" >>, x) : d \in ImageFolders, x \in {"jpg", "png"} }

DownloadUrls ==
    { NoUrl, ImgUrl("relative", "", "photo", "jpg"),
      ImgUrl("http", "a.example", "photo", "jpg"), ImgUrl("http", "a.example", "photo", "") }

\* downloadImageLocally is applied to the input the behaviour chose.
DownloadImageLocally ==
    /\ arg.fn = "downloadImageLocally"
    /\ ~ret.done
    /\ ret' = downloadImageLocally(arg.url, arg.folderPath, arg.fileName, arg.response,
                                   arg.existing, arg.mkdirFails, arg.writeFails)
    /\ UNCHANGED << vaultVars, tombstoned, cleaned, handDeleted >>
    /\ PureFrame

InitImages ==
    /\ Loaded
    /\ settings = DEFAULT_SETTINGS
    /\ ret = NotDone
    /\ arg \in
          { [fn |-> "extractImageUrl", item |-> i, itemUrl |-> u, page |-> p,
             probe |-> [maxres |-> m, sd |-> s]] :
               i \in RawItems, u \in ItemUrls, p \in PageOutcomes,
               m \in ProbeOutcomes, s \in ProbeOutcomes }
          \cup
          { [fn |-> "downloadImageLocally", url |-> u, folderPath |-> d, fileName |-> n,
             response |-> r, existing |-> e, mkdirFails |-> mf, writeFails |-> wf] :
               u \in DownloadUrls, d \in ImageFolders, n \in ImageNames,
               r \in ImageResponses, e \in SUBSET ImageFiles,
               mf \in BOOLEAN, wf \in BOOLEAN }

NextImages ==
    \/ ExtractImageUrl
    \/ DownloadImageLocally

SpecImages == InitImages /\ [][NextImages]_vars


\* -------------------------------------------------------- descriptionShort

\* processDescription(raw): raw is absent, a string, or an element whose text
\* is under "_".
processDescription(raw) ==
    IF raw = Absent THEN <<>>
    ELSE IF "text" \in DOMAIN raw THEN raw.text
    ELSE raw._

\* Each character of s with its position.
Indexed(s) == [i \in 1..Len(s) |-> << i, s[i] >>]

\* The characters of a sequence of positioned characters.
Chars(ps) == [n \in 1..Len(ps) |-> ps[n][2]]

\* Position i of s lies in a match of /<[^>]*>/: a "<" at or before it with
\* no ">" between, and a ">" at or after it.
InTag(s, i) ==
    /\ \E j \in 1..i : s[j] = "<" /\ \A m \in j..(i - 1) : s[m] # ">"
    /\ \E k \in i..Len(s) : s[k] = ">"

\* full.replace(/<[^>]*>/g, '')
StripTags(s) == Chars(SelectSeq(Indexed(s), LAMBDA p : ~InTag(s, p[1])))

\* The characters \s matches, of those the model uses.
WhiteSpace == {" ", "\n", "\t"}

\* .replace(/\s+/g, ' '): the first character of a run of white space becomes
\* a blank, the rest of the run goes.
CollapseSpaces(s) ==
    LET kept == SelectSeq(Indexed(s),
                    LAMBDA p : ~(p[2] \in WhiteSpace /\ p[1] > 1 /\ s[p[1] - 1] \in WhiteSpace))
    IN  [n \in 1..Len(kept) |-> IF kept[n][2] \in WhiteSpace THEN " " ELSE kept[n][2]]

\* full.replace(/<[^>]*>/g, '').replace(/\s+/g, ' ').trim()
Stripped(full) == Trim(CollapseSpaces(StripTags(full)))

\* Fault: the text is cut at 280 characters before the dots are added.
processDescriptionShort_CutAt280(raw) ==
    LET stripped == Stripped(processDescription(raw))
    IN  IF processDescription(raw) = <<>> THEN <<>>
        ELSE IF Len(stripped) > 280
        THEN SubSeq(stripped, 1, 280) \o << ".", ".", "." >>
        ELSE stripped

\* processDescriptionShort(raw)
processDescriptionShort(raw) ==
    LET stripped == Stripped(processDescription(raw))
    IN  IF processDescription(raw) = <<>> THEN <<>>
        ELSE IF Len(stripped) > 280
        THEN SubSeq(stripped, 1, 277) \o << ".", ".", "." >>
        ELSE stripped

Repeat(c, n) == [i \in 1..n |-> c]

\* The descriptions of the model: n letters, with something between the two
\* halves, something before and something after.
DescriptionSizes == {0, 1} \cup 276..283

DescriptionParts ==
    { <<>>, << " ", "\n", "\t" >>, << "<", "b", "r", " ", "/", ">" >>, << "<" >>, << ">" >> }

Descriptions ==
    { lead \o Repeat("a", n \div 2) \o mid \o Repeat("b", n - (n \div 2)) \o tail :
        n \in DescriptionSizes, lead \in DescriptionParts, mid \in DescriptionParts,
        tail \in DescriptionParts }

\* processDescriptionShort is applied to the input the behaviour chose.
ProcessDescriptionShort ==
    /\ arg.fn = "processDescriptionShort"
    /\ ~ret.done
    /\ ret' = [done |-> TRUE, value |-> processDescriptionShort(arg.raw)]
    /\ UNCHANGED << vaultVars, tombstoned, cleaned, handDeleted >>
    /\ PureFrame

InitDescription ==
    /\ Loaded
    /\ settings = DEFAULT_SETTINGS
    /\ ret = NotDone
    /\ arg \in { [fn |-> "processDescriptionShort", raw |-> r] :
                    r \in {Absent} \cup {[text |-> s] : s \in Descriptions}
                             \cup {[_ |-> s] : s \in Descriptions} }

SpecDescription == InitDescription /\ [][ProcessDescriptionShort]_vars

\* ------------------------------------------------------------ environment

\* The clock advances while no run is active.
Tick(step) ==
    /\ ticks < MaxTicks
    /\ pc = "idle"
    /\ now' = now + step
    /\ ticks' = ticks + 1
    /\ Disturb
    /\ UNCHANGED << settings, feeds, vaultVars, runVars, lastSave, lastTrigger,
                    lastNotice, globalPasses, ghostVars, userOps, configOps >>
    /\ UNCHANGED auxVars

\* "+ Add Feed" (myFeedsTab): the url is new, the feed's info is fetched, the
\* feed is pushed and the settings are saved.
AddFeed(url) ==
    /\ Len(feeds) < MaxFeeds
    /\ ~\E i \in 1..Len(feeds) : feeds[i].url = url
    /\ feeds' = Append(feeds, NewFeed(url, now))
    /\ Disturb
    /\ UNCHANGED << now, ticks, settings, vaultVars, runVars, lastSave, lastTrigger,
                    lastNotice, globalPasses, ghostVars, userOps, configOps >>
    /\ UNCHANGED auxVars

\* The general tab's "Auto Delete Old Articles" toggle.
ToggleAutoDelete(v) ==
    /\ userOps + configOps < MaxUserOps
    /\ pc = "idle"
    /\ settings' = [settings EXCEPT !.autoCleanupValue = IF v THEN 30 ELSE 0]
    /\ settings' # settings
    /\ configOps' = configOps + 1
    /\ Disturb
    /\ UNCHANGED << now, ticks, feeds, vaultVars, runVars, lastSave, lastTrigger,
                    lastNotice, globalPasses, ghostVars, userOps >>
    /\ UNCHANGED auxVars

\* The general tab's date-criterion dropdown.
SetDateField(v) ==
    /\ userOps + configOps < MaxUserOps
    /\ pc = "idle"
    /\ settings' = [settings EXCEPT !.autoCleanupDateField = v]
    /\ settings' # settings
    /\ configOps' = configOps + 1
    /\ Disturb
    /\ UNCHANGED << now, ticks, feeds, vaultVars, runVars, lastSave, lastTrigger,
                    lastNotice, globalPasses, ghostVars, userOps >>
    /\ UNCHANGED auxVars

\* The general tab's protected-property toggle.
SetCheckProperty(v) ==
    /\ userOps + configOps < MaxUserOps
    /\ pc = "idle"
    /\ settings' = [settings EXCEPT !.autoCleanupCheckProperty = v]
    /\ settings' # settings
    /\ configOps' = configOps + 1
    /\ Disturb
    /\ UNCHANGED << now, ticks, feeds, vaultVars, runVars, lastSave, lastTrigger,
                    lastNotice, globalPasses, ghostVars, userOps >>
    /\ UNCHANGED auxVars

\* The edit-feed modal's per-feed override: off, or 30 in the global unit with
\* the date criterion the user picks.
EditFeedCleanup(i, on, field) ==
    /\ userOps + configOps < MaxUserOps
    /\ pc = "idle"
    /\ i \in 1..Len(feeds)
    /\ feeds' = [feeds EXCEPT ![i] =
          [@ EXCEPT !.autoCleanupValue     = IF on THEN 30 ELSE Undefined,
                    !.autoCleanupUnit      = IF on THEN settings.autoCleanupUnit ELSE "undefined",
                    !.autoCleanupDateField = IF on THEN field ELSE "undefined"]]
    /\ feeds' # feeds
    /\ configOps' = configOps + 1
    /\ Disturb
    /\ UNCHANGED << now, ticks, settings, vaultVars, runVars, lastSave, lastTrigger,
                    lastNotice, globalPasses, ghostVars, userOps >>
    /\ UNCHANGED auxVars

\* -------------------------------------------------------------- feed list

\* What every handler of the feed list leaves alone.
FeedListFrame ==
    /\ Disturb
    /\ UNCHANGED << now, ticks, settings, vaultVars, runVars, lastSave, lastTrigger,
                    lastNotice, globalPasses, ghostVars, userOps, configOps,
                    netVars, timerVars, pureVars >>

\* importFeeds' loop: each selected feed is pushed unless the list already
\* holds its url.
\* A handler that revises an entry of the list (its url is edited, it is
\* restored, it is removed for good): such revisions are counted.
FeedRevisionFrame ==
    /\ userOps + configOps < MaxUserOps
    /\ configOps' = configOps + 1
    /\ Disturb
    /\ UNCHANGED << now, ticks, settings, vaultVars, runVars, lastSave, lastTrigger,
                    lastNotice, globalPasses, ghostVars, userOps, auxVars >>

RECURSIVE ImportInto(_, _, _)
ImportInto(fs, sel, t) ==
    IF sel = <<>> THEN fs
    ELSE IF \E i \in 1..Len(fs) : fs[i].url = Head(sel)
         THEN ImportInto(fs, Tail(sel), t)
         ELSE ImportInto(Append(fs, NewFeed(Head(sel), t)), Tail(sel), t)

\* The feeds an OPML file may select: one or two outlines, alike or not.
OpmlSelections == {<<u>> : u \in Urls} \cup {<<u, v>> : u \in Urls, v \in Urls}

\* The OPML tab's import of the selected feeds.
ImportFeeds(sel) ==
    /\ pc = "idle"
    /\ Len(ImportInto(feeds, sel, now)) <= MaxFeeds
    /\ feeds' = ImportInto(feeds, sel, now)
    /\ FeedListFrame
    /\ UNCHANGED lastRender

\* The edit-feed modal's url field: the typed value is stored in the feed.
EditFeedUrl(i, url) ==
    /\ pc = "idle"
    /\ i \in 1..Len(feeds)
    /\ feeds[i].url # url
    /\ feeds' = [feeds EXCEPT ![i].url = url]
    /\ FeedRevisionFrame

\* The trash button of a feed that is not deleted (and the modal's "Delete Feed").
SoftDeleteFeed(i) ==
    /\ pc = "idle"
    /\ i \in 1..Len(feeds)
    /\ ~feeds[i].deleted
    /\ feeds' = [feeds EXCEPT ![i] =
          [@ EXCEPT !.deleted = TRUE, !.deletedAt = now, !.enabled = FALSE]]
    /\ FeedListFrame
    /\ UNCHANGED lastRender

\* The restore button of a deleted feed.
RestoreFeed(i) ==
    /\ pc = "idle"
    /\ i \in 1..Len(feeds)
    /\ feeds[i].deleted
    /\ feeds' = [feeds EXCEPT ![i] = [@ EXCEPT !.deleted = FALSE, !.deletedAt = Undefined]]
    /\ FeedRevisionFrame

\* Fault: archiving leaves the feed enabled.
Archived_KeepsEnabled(feed) == [feed EXCEPT !.archived = TRUE]

\* feed.archived = true; feed.enabled = false;
Archived(feed) == [feed EXCEPT !.archived = TRUE, !.enabled = FALSE]

\* A card is "normal" when its feed is neither archived nor deleted.
IsNormal(feed) == ~feed.archived /\ ~feed.deleted

\* The archive button of a normal feed.
ArchiveFeed(i) ==
    /\ pc = "idle"
    /\ i \in 1..Len(feeds)
    /\ IsNormal(feeds[i])
    /\ feeds' = [feeds EXCEPT ![i] = Archived(@)]
    /\ FeedListFrame
    /\ UNCHANGED lastRender

\* The unarchive button of an archived feed that is not deleted.
UnarchiveFeed(i) ==
    /\ pc = "idle"
    /\ i \in 1..Len(feeds)
    /\ feeds[i].archived /\ ~feeds[i].deleted
    /\ feeds' = [feeds EXCEPT ![i] = [@ EXCEPT !.archived = FALSE]]
    /\ FeedListFrame
    /\ UNCHANGED lastRender

\* The enable toggle of a card: drawn on normal cards only (and, where it is
\* drawn on an archived card, disabled).
ToggleFeed(i, v) ==
    /\ pc = "idle"
    /\ i \in 1..Len(feeds)
    /\ IsNormal(feeds[i])
    /\ feeds' = [feeds EXCEPT ![i] = [@ EXCEPT !.enabled = v]]
    /\ FeedListFrame
    /\ UNCHANGED lastRender

\* "Enable/Disable All Active Feeds": activeFeeds.forEach(f => f.enabled = value)
ToggleAllFeeds(v) ==
    /\ pc = "idle"
    /\ feeds' = [j \in 1..Len(feeds) |->
                    IF IsNormal(feeds[j]) THEN [feeds[j] EXCEPT !.enabled = v]
                    ELSE feeds[j]]
    /\ FeedListFrame
    /\ UNCHANGED lastRender

\* "Delete folder & feeds" of a group whose feeds, all normal, are `members`.
DeleteGroup(members) ==
    /\ pc = "idle"
    /\ members # {}
    /\ \A j \in members : IsNormal(feeds[j])
    /\ feeds' = [j \in 1..Len(feeds) |->
                    IF j \in members
                    THEN [feeds[j] EXCEPT !.deleted = TRUE, !.deletedAt = now,
                                          !.enabled = FALSE]
                    ELSE feeds[j]]
    /\ FeedListFrame
    /\ UNCHANGED lastRender

\* feeds.splice(i, 1)
Splice(fs, i) == [j \in 1..(Len(fs) - 1) |-> IF j < i THEN fs[j] ELSE fs[j + 1]]

\* The trash button of a deleted feed, confirmed: the feed is removed for good.
HardDeleteFeed(i) ==
    /\ pc = "idle"
    /\ i \in 1..Len(feeds)
    /\ feeds[i].deleted
    /\ feeds' = Splice(feeds, i)
    /\ FeedRevisionFrame

FIFTEEN_DAYS_MS == 15 * 24 * 60 * minute

\* Fault: a feed deleted for exactly fifteen days is dropped as well.
PurgeKeeps_AtFifteen(f, t) ==
    ~(f.deleted /\ f.deletedAt # Undefined /\ t - f.deletedAt >= FIFTEEN_DAYS_MS)

\* The filter of renderFeedsList: the feed stays in the list.
PurgeKeeps(f, t) ==
    ~(f.deleted /\ f.deletedAt # Undefined /\ t - f.deletedAt > FIFTEEN_DAYS_MS)

\* The "My Feeds" tab is rendered: feeds deleted for more than fifteen days
\* are dropped from the list.
renderFeedsList ==
    /\ pc = "idle"
    /\ feeds' = SelectSeq(feeds, LAMBDA f : PurgeKeeps(f, now))
    /\ lastRender' = [flip    |-> ~lastRender.flip,
                      dropped |-> Len(feeds) - Len(feeds')]
    /\ FeedListFrame

\* The clock steps that bracket the fifteen days of the purge.
PurgeTickSteps == {15 * day, 16 * day}

\* The values a user writes into the protected-property line of a note.
PropValues == {"true", "True", "false"}

\* The user edits the note at p: sets the property line.
UserSetProperty(p, v) ==
    /\ userOps + configOps < MaxUserOps
    /\ pc = "idle"
    /\ p \in DOMAIN files
    /\ files[p].fm
    /\ files' = [files EXCEPT ![p] = [@ EXCEPT !.prop = v, !.mtime = now]]
    /\ userOps' = userOps + 1
    /\ Disturb
    /\ UNCHANGED << now, ticks, settings, feeds, folders, ledger, corrupt, runVars,
                    lastSave,
                    lastTrigger, lastNotice, globalPasses, ghostVars, configOps >>
    /\ UNCHANGED auxVars

\* The user edits the note at p: removes its frontmatter block.
UserRemoveFrontmatter(p) ==
    /\ userOps + configOps < MaxUserOps
    /\ pc = "idle"
    /\ p \in DOMAIN files
    /\ files[p].fm
    /\ files' = [files EXCEPT ![p] = [@ EXCEPT !.fm = FALSE, !.mtime = now]]
    /\ userOps' = userOps + 1
    /\ Disturb
    /\ UNCHANGED << now, ticks, settings, feeds, folders, ledger, corrupt, runVars,
                    lastSave,
                    lastTrigger, lastNotice, globalPasses, ghostVars, configOps >>
    /\ UNCHANGED auxVars

\* The user deletes the note at p by hand.
UserDeleteFile(p) ==
    /\ userOps + configOps < MaxUserOps
    /\ pc = "idle"
    /\ p \in DOMAIN files
    /\ files' = [q \in DOMAIN files \ {p} |-> files[q]]
    /\ handDeleted' = handDeleted \cup {<<p.dir, files[p].key>>}
    /\ userOps' = userOps + 1
    /\ Disturb
    /\ UNCHANGED << now, ticks, settings, feeds, folders, ledger, corrupt, runVars,
                    lastSave,
                    lastTrigger, lastNotice, globalPasses, accepted, tombstoned, cleaned, configOps >>
    /\ UNCHANGED auxVars

\* The .feed-db.json of a folder is damaged outside the plugin (a truncated
\* write, a sync conflict, an edit by hand): it exists and no longer parses.
CorruptLedger(d) ==
    /\ userOps + configOps < MaxUserOps
    /\ pc = "idle"
    /\ d \in folders
    /\ d \notin corrupt
    /\ corrupt' = corrupt \cup {d}
    /\ userOps' = userOps + 1
    /\ Disturb
    /\ UNCHANGED << now, ticks, settings, feeds, folders, files, ledger, runVars,
                    lastSave, lastTrigger, lastNotice, globalPasses, ghostVars, configOps >>
    /\ UNCHANGED auxVars

\* The general tab's "Clean Up Now" button.
CleanUpNow ==
    /\ pc = "idle"
    /\ settings.autoCleanupValue > 0
    /\ SetVault(cleanupOldFiles(Vault, sanitizeFolderPath(DEFAULT_folderPath),
                    settings.autoCleanupValue, settings.autoCleanupUnit,
                    settings.autoCleanupDateField), TRUE)
    /\ Disturb
    /\ UNCHANGED << now, ticks, settings, feeds, runVars, lastSave, lastTrigger,
                    lastNotice, globalPasses, accepted, userOps, configOps >>
    /\ UNCHANGED auxVars

\* --------------------------------------------------------- updateAllFeeds

TriggerSources == {"command", "ribbon", "timer", "button"}

\* this.settings.feeds.filter(f => f.enabled && f.url && !f.deleted)
enabledFeeds ==
    SelectSeq(feeds, LAMBDA f : f.enabled /\ f.url # "" /\ ~f.deleted)

\* Fault: the re-entrancy guard is missing.
GuardBlocks_Off == FALSE

\* if (this.isUpdating) return;
GuardBlocks == isUpdating

\* A trigger that meets a run in progress returns at the guard.
TriggerIgnored(src) ==
    /\ GuardBlocks
    /\ lastTrigger' = "ignored"
    /\ UNCHANGED << now, ticks, settings, feeds, vaultVars, runVars, lastSave,
                    lastNotice, globalPasses, ghostVars, prevRunClean, tainted, userOps, configOps >>
    /\ UNCHANGED auxVars

\* Fault: the flag is not cleared when the run ends.
Finally_Missing == isUpdating' = TRUE

\* finally { this.isUpdating = false; }
Finally == isUpdating' = FALSE

\* A trigger that passes the guard and finds no active feed: the notice, and
\* the finally block clears the flag before any other handler runs.
TriggerNoFeeds(src) ==
    /\ ~GuardBlocks
    /\ enabledFeeds = <<>>
    /\ lastTrigger' = "started"
    /\ lastNotice' = "No active feeds to update."
    /\ globalPasses' = 0
    /\ Finally
    /\ UNCHANGED << now, ticks, settings, feeds, vaultVars, activeRuns, pc, queue, fi,
                    items, ii, newItemsCount, feedLog, lastSave, ghostVars,
                    prevRunClean, tainted, userOps, configOps >>
    /\ UNCHANGED auxVars

\* A trigger that passes the guard and starts the loop over the feeds.
StartRun(src) ==
    /\ ~GuardBlocks
    /\ enabledFeeds # <<>>
    /\ isUpdating' = TRUE
    /\ activeRuns' = activeRuns + 1
    /\ lastTrigger' = "started"
    /\ lastNotice' = "Updating RSS feeds..."
    /\ globalPasses' = 0
    /\ queue' = [i \in 1..Len(enabledFeeds) |-> enabledFeeds[i].url]
    /\ fi' = 1
    /\ pc' = "fetch"
    /\ items' = <<>>
    /\ ii' = 0
    /\ newItemsCount' = 0
    /\ feedLog' = <<>>
    /\ tainted' = FALSE
    /\ UNCHANGED << now, ticks, settings, feeds, vaultVars, lastSave, ghostVars,
                    prevRunClean, userOps, configOps >>
    /\ UNCHANGED auxVars

\* What the run did for one feed.
LogEntry(url, fetched, offered, threw, stamped, swept, stuck) ==
    [url |-> url, fetched |-> fetched, offered |-> offered, threw |-> threw,
     stamped |-> stamped, swept |-> swept, stuck |-> stuck]

\* The for loop moves to the next feed, or leaves the loop.
NextFeed ==
    /\ fi' = fi + 1
    /\ pc' = IF fi + 1 > Len(queue) THEN "global" ELSE "fetch"
    /\ items' = <<>>
    /\ ii' = 0
    /\ newItemsCount' = 0

\* Fault: an error of one feed leaves the loop over the feeds.
CatchFeedError_Break ==
    /\ fi' = fi + 1
    /\ pc' = "global"
    /\ items' = <<>>
    /\ ii' = 0
    /\ newItemsCount' = 0

\* The catch block of the per-feed try: the error is logged, the loop goes on.
CatchFeedError == NextFeed

\* fetchAndExtract and processItems return the feed's items.
FetchOk ==
    /\ pc = "fetch"
    /\ items' = Served(queue[fi])
    /\ ii' = 1
    /\ newItemsCount' = 0
    /\ pc' = "items"
    /\ UNCHANGED << now, ticks, settings, feeds, vaultVars, isUpdating, activeRuns,
                    queue, fi, feedLog, lastSave, lastTrigger, lastNotice, globalPasses, ghostVars,
                    prevRunClean, tainted, userOps, configOps >>
    /\ UNCHANGED auxVars

\* fetchAndExtract (or processItems) throws.
FetchThrows ==
    /\ pc = "fetch"
    /\ CatchFeedError
    /\ feedLog' = Append(feedLog, LogEntry(queue[fi], FALSE, 0, TRUE, FALSE, FALSE, {}))
    /\ Disturb
    /\ UNCHANGED << now, ticks, settings, feeds, vaultVars, isUpdating, activeRuns,
                    queue, lastSave, lastTrigger, lastNotice, globalPasses, ghostVars, userOps,
                    configOps >>
    /\ UNCHANGED auxVars

Faults == {"none", "mkdir", "write"}

\* One pass of the item loop: saveFeedItem returns and is counted.
SaveItemReturns ==
    /\ pc = "items"
    /\ ii <= Len(items)
    /\ \E fault \in Faults :
         LET feed == FeedByUrl(queue[fi])
             dir  == resolveFeedPath(feed)
             r    == saveFeedItem(items[ii], dir, feed, fault)
         IN  /\ r.result # "threw"
             /\ SetVault(r, FALSE)
             /\ lastSave' = [key |-> ItemKey(items[ii]), folder |-> dir, result |-> r.result,
                             steps |-> r.steps]
             /\ newItemsCount' = IF r.result = "saved" THEN newItemsCount + 1 ELSE newItemsCount
             /\ accepted' = IF r.result = "saved" THEN accepted \cup {queue[fi]} ELSE accepted
    /\ ii' = ii + 1
    /\ UNCHANGED << now, ticks, settings, feeds, isUpdating, activeRuns, pc, queue, fi,
                    items, feedLog, lastTrigger, lastNotice, globalPasses, prevRunClean, tainted,
                    userOps, configOps >>
    /\ UNCHANGED auxVars

\* One pass of the item loop: saveFeedItem throws (folder creation or file
\* write fails); the error leaves the item loop for the per-feed catch.
SaveItemThrows ==
    /\ pc = "items"
    /\ ii <= Len(items)
    /\ \E fault \in Faults :
         LET feed == FeedByUrl(queue[fi])
             dir  == resolveFeedPath(feed)
             r    == saveFeedItem(items[ii], dir, feed, fault)
         IN  /\ r.result = "threw"
             /\ SetVault(r, FALSE)
             /\ lastSave' = [key |-> ItemKey(items[ii]), folder |-> dir, result |-> r.result,
                             steps |-> r.steps]
    /\ CatchFeedError
    /\ feedLog' = Append(feedLog,
           LogEntry(queue[fi], TRUE, ii, TRUE, FALSE, FALSE, {}))
    /\ Disturb
    /\ UNCHANGED << now, ticks, settings, feeds, isUpdating, activeRuns, queue,
                    lastTrigger, lastNotice, globalPasses, accepted, userOps, configOps >>
    /\ UNCHANGED auxVars

\* Fault: the stamp does not depend on the count of accepted items.
ShouldStamp_Always == TRUE

\* if (newItemsCount > 0)
ShouldStamp == newItemsCount > 0

\* After the item loop: the lastUpdated stamp with saveSettingsSilent, then
\* the per-feed cleanup, in which the deletions of `stuck` fail.
FinishFeedStuck(stuck) ==
    /\ pc = "items"
    /\ ii > Len(items)
    /\ LET feed == FeedByUrl(queue[fi])
           dir  == resolveFeedPath(feed)
           on   == ResolvedCleanupValue(feed) > 0
           all  == Candidates(Vault, dir, ResolvedCleanupValue(feed),
                       ResolvedCleanupUnit(feed), ResolvedDateField(feed))
       IN  /\ on \/ stuck = {}
           /\ stuck \subseteq all
           /\ feeds' = [j \in 1..Len(feeds) |->
                          IF feeds[j].url = queue[fi] /\ ShouldStamp
                          THEN [feeds[j] EXCEPT !.lastUpdated = now]
                          ELSE feeds[j]]
           /\ SetVault(IF on
                       THEN cleanupOldFilesStuck(Vault, dir, ResolvedCleanupValue(feed),
                                ResolvedCleanupUnit(feed), ResolvedDateField(feed), stuck)
                       ELSE Vault, TRUE)
           /\ feedLog' = Append(feedLog,
                  LogEntry(queue[fi], TRUE, Len(items), FALSE, ShouldStamp, on, stuck))
    /\ NextFeed
    /\ UNCHANGED << now, ticks, settings, isUpdating, activeRuns, queue, lastSave,
                    lastTrigger, lastNotice, globalPasses, accepted, prevRunClean, tainted,
                    userOps, configOps >>
    /\ UNCHANGED auxVars

\* The same when every deletion succeeds.
FinishFeed == FinishFeedStuck({})

\* After the feed loop: the global cleanup, the completion notice, and the
\* finally block.
CompleteRun ==
    /\ pc = "global"
    /\ SetVault(IF settings.autoCleanupValue > 0
                THEN cleanupOldFiles(Vault, sanitizeFolderPath(DEFAULT_folderPath),
                         settings.autoCleanupValue, settings.autoCleanupUnit,
                         settings.autoCleanupDateField)
                ELSE Vault, TRUE)
    /\ lastNotice' = "RSS Update complete!"
    /\ globalPasses' = globalPasses + (IF settings.autoCleanupValue > 0 THEN 1 ELSE 0)
    /\ Finally
    /\ activeRuns' = activeRuns - 1
    /\ pc' = "idle"
    /\ queue' = <<>>
    /\ fi' = 0
    /\ items' = <<>>
    /\ ii' = 0
    /\ newItemsCount' = 0
    /\ feedLog' = <<>>
    /\ lastSave' = NoSave
    /\ prevRunClean' = ~tainted
    /\ tainted' = FALSE
    /\ UNCHANGED << now, ticks, settings, feeds, lastTrigger, accepted, userOps,
                    configOps >>
    /\ UNCHANGED auxVars

\* An error outside the per-feed handler, before the loop: a Notice that
\* cannot be shown throws out of the try block into finally.
NoticeThrows(src) ==
    /\ ~GuardBlocks
    /\ lastTrigger' = "started"
    /\ Finally
    /\ UNCHANGED << now, ticks, settings, feeds, vaultVars, activeRuns, pc, queue, fi,
                    items, ii, newItemsCount, feedLog, lastSave, lastNotice,
                    globalPasses, ghostVars, prevRunClean, tainted, userOps, configOps >>
    /\ UNCHANGED auxVars

\* The same after the loop: the global cleanup is done, the completion
\* Notice throws, finally clears the flag.
CompleteThrows ==
    /\ pc = "global"
    /\ SetVault(IF settings.autoCleanupValue > 0
                THEN cleanupOldFiles(Vault, sanitizeFolderPath(DEFAULT_folderPath),
                         settings.autoCleanupValue, settings.autoCleanupUnit,
                         settings.autoCleanupDateField)
                ELSE Vault, TRUE)
    /\ globalPasses' = globalPasses + (IF settings.autoCleanupValue > 0 THEN 1 ELSE 0)
    /\ Finally
    /\ activeRuns' = activeRuns - 1
    /\ pc' = "idle"
    /\ queue' = <<>>
    /\ fi' = 0
    /\ items' = <<>>
    /\ ii' = 0
    /\ newItemsCount' = 0
    /\ feedLog' = <<>>
    /\ lastSave' = NoSave
    /\ Disturb
    /\ UNCHANGED << now, ticks, settings, feeds, lastTrigger, lastNotice, accepted,
                    userOps, configOps >>
    /\ UNCHANGED auxVars

\* -------------------------------------------------------------------- Next

\* ------------------------------------------------------------------ timers

\* What the "Update Interval" text field may hold.
IntervalTexts ==
    { <<>>, << " " >>, << "0" >>, << "1" >>, << "4", "5" >>, << "-", "5" >>,
      << "a", "b", "c" >> }

Digits == {"0", "1", "2", "3", "4", "5", "6", "7", "8", "9"}

DigitValue(c) ==
    CHOOSE n \in 0..9 : << "0", "1", "2", "3", "4", "5", "6", "7", "8", "9" >>[n + 1] = c

RECURSIVE DecimalValue(_)
DecimalValue(s) ==
    IF s = <<>> THEN 0
    ELSE 10 * DecimalValue(SubSeq(s, 1, Len(s) - 1)) + DigitValue(s[Len(s)])

\* Number(v) for a text of digits with an optional sign; the empty text is 0
\* and any other text is NaN.
Number(v) ==
    LET t    == Trim(v)
        body == IF t # <<>> /\ Head(t) \in {"-", "+"} THEN Tail(t) ELSE t
    IN  IF t = <<>> THEN 0
        ELSE IF body = <<>> \/ \E i \in 1..Len(body) : body[i] \notin Digits THEN NaN
        ELSE IF Head(t) = "-" THEN 0 - DecimalValue(body)
        ELSE DecimalValue(body)

\* v.trim() === '' ? 30 : Number(v) || 30
ParseInterval(v) ==
    IF Trim(v) = <<>> THEN 30
    ELSE IF Number(v) = NaN \/ Number(v) = 0 THEN 30 ELSE Number(v)

IntervalUnits == {"minutes", "hours", "days", "months"}

\* getIntervalMs, in minutes.
getIntervalMs(s) ==
    LET value == s.updateIntervalValue
        unit  == s.updateIntervalUnit
        month == day * 30
    IN  CASE unit = "minutes" -> value * minute
          [] unit = "hours"   -> value * hour
          [] unit = "days"    -> value * day
          [] unit = "months"  -> value * month
          [] OTHER            -> value * minute

Range(q) == {q[i] : i \in 1..Len(q)}

\* window.setInterval returns an id no registered timer has.
FreshId(registered) ==
    CHOOSE n \in 1..(Cardinality(registered) + 1) : n \notin registered

\* setupAutoUpdate: every id of intervalIds is cleared, the list is reset, and
\* one timer is registered when the interval is a minute or more.
setupAutoUpdate(registered, ids, s) ==
    LET cleared == registered \ Range(ids)
    IN  IF getIntervalMs(s) >= minute
        THEN [timers |-> cleared \cup {FreshId(cleared)},
              intervalIds |-> << FreshId(cleared) >>]
        ELSE [timers |-> cleared, intervalIds |-> <<>>]

TimerFrame ==
    UNCHANGED << now, ticks, feeds, vaultVars, runVars, lastSave, lastTrigger,
                 lastNotice, globalPasses, ghostVars, prevRunClean, tainted, userOps, configOps,
                 lastRender, netVars, pureVars >>

\* saveSettings up to "await this.saveData(this.settings)".
saveSettings_Begin == pendingSaves' = pendingSaves + 1

\* The general tab's "Update Interval" text field.
SetUpdateIntervalValue(v) ==
    /\ life = "loaded"
    /\ pendingSaves < MaxPendingSaves
    /\ settings' = [settings EXCEPT !.updateIntervalValue = ParseInterval(v)]
    /\ saveSettings_Begin
    /\ UNCHANGED << timers, intervalIds, life >>
    /\ TimerFrame

\* The general tab's "Update Interval" dropdown.
SetUpdateIntervalUnit(v) ==
    /\ life = "loaded"
    /\ pendingSaves < MaxPendingSaves
    /\ settings' = [settings EXCEPT !.updateIntervalUnit = v]
    /\ saveSettings_Begin
    /\ UNCHANGED << timers, intervalIds, life >>
    /\ TimerFrame

\* saveSettings after saveData resolved: this.setupAutoUpdate().
saveSettings_Resume ==
    /\ pendingSaves > 0
    /\ pendingSaves' = pendingSaves - 1
    /\ LET r == setupAutoUpdate(timers, intervalIds, settings)
       IN  timers' = r.timers /\ intervalIds' = r.intervalIds
    /\ UNCHANGED << settings, life >>
    /\ TimerFrame

\* onunload: every id of intervalIds is cleared and the list is reset.
onunload ==
    /\ life = "loaded"
    /\ timers' = timers \ Range(intervalIds)
    /\ intervalIds' = <<>>
    /\ life' = "unloaded"
    /\ UNCHANGED << settings, pendingSaves >>
    /\ TimerFrame

\* The plugin is enabled again: a new RssPlugin with an empty intervalIds
\* loads the stored settings and calls setupAutoUpdate.
onload ==
    /\ life = "unloaded"
    /\ pendingSaves = 0
    /\ Cardinality(timers) <= MaxOrphans
    /\ LET r == setupAutoUpdate(timers, <<>>, settings)
       IN  timers' = r.timers /\ intervalIds' = r.intervalIds
    /\ life' = "loaded"
    /\ UNCHANGED << settings, pendingSaves >>
    /\ TimerFrame

\* A registered timer fires: () => this.updateAllFeeds().
TimerFires ==
    /\ timers # {}
    /\ TriggerNoFeeds("timer")

\* The steps of updateAllFeeds when nothing fails.
RunStep ==
    \/ \E src \in TriggerSources : TriggerNoFeeds(src)
    \/ \E src \in TriggerSources : StartRun(src)
    \/ FetchOk
    \/ SaveItemReturns
    \/ FinishFeed
    \/ CompleteRun

\* The orchestrator: feeds are added, triggers arrive at any moment, fetches
\* and writes may fail, the clock advances between runs.  The settings stay
\* as Init chose them.
Next ==
    \/ \E u \in Urls : AddFeed(u)
    \/ \E step \in TickSteps : Tick(step)
    \/ \E src \in TriggerSources : TriggerIgnored(src)
    \/ RunStep
    \/ FetchThrows
    \/ SaveItemThrows

Spec == Init /\ [][Next]_vars

\* Retention: one feed, runs that meet no fault, and between them the clock
\* advances, the settings change, the user touches notes and presses
\* "Clean Up Now".
NextRetention ==
    \/ AddFeed("a")
    \/ \E step \in TickSteps : Tick(step)
    \/ \E v \in BOOLEAN : ToggleAutoDelete(v)
    \/ \E v \in {"datesaved", "datepub"} : SetDateField(v)
    \/ \E v \in BOOLEAN : SetCheckProperty(v)
    \/ \E i \in 1..Len(feeds), on \in BOOLEAN, d \in {"global", "datesaved", "datepub"} :
          EditFeedCleanup(i, on, d)
    \/ \E p \in DOMAIN files, v \in PropValues : UserSetProperty(p, v)
    \/ \E p \in DOMAIN files : UserRemoveFrontmatter(p)
    \/ \E p \in DOMAIN files : UserDeleteFile(p)
    \/ CleanUpNow
    \/ RunStep

SpecRetention == Init /\ [][NextRetention]_vars

\* Retention with a ledger file that may be damaged between runs.
NextLedger ==
    \/ NextRetention
    \/ \E d \in Folders : CorruptLedger(d)

SpecLedger == Init /\ [][NextLedger]_vars

\* saveFeedItem called again and again while the retention settings change.
NextSave ==
    \/ \E item \in SaveItems : SaveFeedItem(item)
    \/ \E v \in BOOLEAN : ToggleAutoDelete(v)
    \/ \E v \in {"datesaved", "datepub"} : SetDateField(v)

SpecSave == InitSave /\ [][NextSave]_vars

\* The orchestrator with errors outside the per-feed handler as well.
NextGuard ==
    \/ Next
    \/ \E src \in TriggerSources : NoticeThrows(src)
    \/ CompleteThrows

SpecGuard == Init /\ [][NextGuard]_vars

\* Retention with deletions that fail: in a per-feed cleanup pass vault.delete
\* may throw for any of the files the pass tries to delete.
NextCleanup ==
    \/ NextRetention
    \/ \E stuck \in SUBSET DOMAIN files : stuck # {} /\ FinishFeedStuck(stuck)

SpecCleanup == Init /\ [][NextCleanup]_vars

\* The feed list: feeds are added, imported, edited, deleted, restored and
\* purged while no run is active, and the clock advances.  Time does not
\* stop: the clock keeps advancing while it can.
NextFeeds ==
    \/ \E u \in Urls : AddFeed(u)
    \/ \E sel \in OpmlSelections : ImportFeeds(sel)
    \/ \E i \in 1..Len(feeds), u \in Urls : EditFeedUrl(i, u)
    \/ \E i \in 1..Len(feeds) : SoftDeleteFeed(i)
    \/ \E i \in 1..Len(feeds) : RestoreFeed(i)
    \/ \E i \in 1..Len(feeds) : HardDeleteFeed(i)
    \/ renderFeedsList
    \/ \E step \in PurgeTickSteps : Tick(step)

SpecFeeds ==
    Init /\ [][NextFeeds]_vars /\ WF_vars(\E step \in PurgeTickSteps : Tick(step))

\* The cards of the feed list and the runs between the clicks.
NextCards ==
    \/ \E u \in Urls : AddFeed(u)
    \/ \E i \in 1..Len(feeds) : ArchiveFeed(i)
    \/ \E i \in 1..Len(feeds) : UnarchiveFeed(i)
    \/ \E i \in 1..Len(feeds) : SoftDeleteFeed(i)
    \/ \E i \in 1..Len(feeds) : RestoreFeed(i)
    \/ \E i \in 1..Len(feeds), v \in BOOLEAN : ToggleFeed(i, v)
    \/ \E v \in BOOLEAN : ToggleAllFeeds(v)
    \/ \E members \in SUBSET (1..Len(feeds)) : DeleteGroup(members)
    \/ RunStep

SpecCards == Init /\ [][NextCards]_vars

\* The timers: the interval is edited, the saves resolve later, the plugin is
\* disabled and enabled again, timers fire.
NextTimers ==
    \/ \E v \in IntervalTexts : SetUpdateIntervalValue(v)
    \/ \E v \in IntervalUnits : SetUpdateIntervalUnit(v)
    \/ saveSettings_Resume
    \/ onunload
    \/ onload
    \/ TimerFires

SpecTimers == Init /\ [][NextTimers]_vars

\* --------------------------------------------------------- network requests

\* The run once more, with its requests in flight: fetchAndExtract awaits the
\* feed's response; processItems starts processItem for every item at once
\* (Promise.all over raws.map), and each processItem awaits extractImageUrl,
\* which sends a request (the item's page, or a thumbnail probe) unless the
\* item's own fields settle the image.  settings.downloadImages is off, so
\* saveFeedItem sends nothing.
NetFrame ==
    UNCHANGED << now, ticks, settings, feeds, vaultVars, isUpdating, activeRuns,
                 queue, lastSave, lastTrigger, lastNotice, globalPasses, ghostVars,
                 userOps, configOps, lastRender, timerVars, pureVars >>

FeedRequest(url) == [kind |-> "feed", of |-> url]

ImageRequest(i) == [kind |-> "image", of |-> i]

\* fetchAndExtract: requestUrl is sent.
FetchRequested ==
    /\ pc = "fetch"
    /\ pc' = "fetching"
    /\ requests' = requests \cup {FeedRequest(queue[fi])}
    /\ UNCHANGED << fi, items, ii, newItemsCount, feedLog, prevRunClean, tainted >>
    /\ NetFrame

\* The feed's response arrives and processItems maps processItem over the raw
\* items: every item in `net` sends its image request before any is answered.
FetchResponds ==
    /\ pc = "fetching"
    /\ \E net \in SUBSET (1..Len(Served(queue[fi]))) :
          requests' = (requests \ {FeedRequest(queue[fi])})
                         \cup {ImageRequest(i) : i \in net}
    /\ items' = Served(queue[fi])
    /\ pc' = "process"
    /\ UNCHANGED << fi, ii, newItemsCount, feedLog, prevRunClean, tainted >>
    /\ NetFrame

\* The feed's request fails: fetchAndExtract throws into the per-feed catch.
FetchFails ==
    /\ pc = "fetching"
    /\ requests' = requests \ {FeedRequest(queue[fi])}
    /\ CatchFeedError
    /\ feedLog' = Append(feedLog, LogEntry(queue[fi], FALSE, 0, TRUE, FALSE, FALSE, {}))
    /\ Disturb
    /\ NetFrame

\* One image request is answered, or fails and is caught in extractImageUrl.
ImageResponds(i) ==
    /\ pc = "process"
    /\ ImageRequest(i) \in requests
    /\ requests' = requests \ {ImageRequest(i)}
    /\ UNCHANGED << pc, fi, items, ii, newItemsCount, feedLog, prevRunClean, tainted >>
    /\ NetFrame

\* Promise.all resolves when every processItem has: the item loop starts.
ItemsProcessed ==
    /\ pc = "process"
    /\ requests = {}
    /\ pc' = "items"
    /\ ii' = 1
    /\ newItemsCount' = 0
    /\ UNCHANGED << requests, fi, items, feedLog, prevRunClean, tainted >>
    /\ NetFrame

NextRequests ==
    \/ \E u \in Urls : AddFeed(u)
    \/ \E src \in TriggerSources : TriggerIgnored(src)
    \/ \E src \in TriggerSources : TriggerNoFeeds(src)
    \/ \E src \in TriggerSources : StartRun(src)
    \/ FetchRequested
    \/ FetchResponds
    \/ FetchFails
    \/ \E i \in 1..Len(items) : ImageResponds(i)
    \/ ItemsProcessed
    \/ SaveItemReturns
    \/ FinishFeed
    \/ CompleteRun

SpecRequests == Init /\ [][NextRequests]_vars

\* ------------------------------------------------------------------ claims

\* The step is one pass of the item loop in which saveFeedItem returned.
SaveStep == pc = "items" /\ ii <= Len(items) /\ ii' = ii + 1

\* The feed, destination folder, ledger key and file path of the item the item
\* loop is about to hand to saveFeedItem.
curFeed == FeedByUrl(queue[fi])
curDir == resolveFeedPath(curFeed)
curKey == ItemKey(items[ii])
curPath == [dir |-> curDir, name |-> FileNameOf(items[ii])]

\* The step ends the item loop of the feed at index j of the settings.
EndsLoopOf(j) ==
    pc = "items" /\ ii > Len(items) /\ fi' = fi + 1 /\ queue[fi] = feeds[j].url

\* C1: a run that follows an undisturbed run, with nothing changed in between
\* (feed content, clock, settings, vault), creates no file and leaves every
\* ledger as it was.
C1_SecondRunIdle ==
    [][ (isUpdating /\ prevRunClean /\ ~tainted /\ ~tainted')
           => (DOMAIN files' \subseteq DOMAIN files /\ ledger' = ledger) ]_vars

\* C2 as stated: an item whose key was ever marked deleted in the ledger of its
\* folder is never written again by saveFeedItem.
C2_NeverRecreated ==
    [][ (SaveStep /\ <<curDir, curKey>> \in tombstoned)
           => (lastSave'.result # "saved" /\ files' = files) ]_vars

\* C2 amended: while the ledger of the destination folder still holds the
\* item's entry marked deleted, saveFeedItem rejects the item, writes no file
\* and leaves the ledger alone; and a deleted mark leaves a ledger only when a
\* ledger write finds it more than 90 days old.
C2_TombstoneHolds ==
    [][ /\ (SaveStep /\ curKey \in DOMAIN ledger[curDir] /\ ledger[curDir][curKey].deleted)
              => (lastSave'.result = "deleted" /\ files' = files /\ ledger' = ledger)
        /\ \A d \in Folders : \A k \in DOMAIN ledger[d] :
              (ledger[d][k].deleted /\ ~(k \in DOMAIN ledger'[d] /\ ledger'[d][k].deleted))
                 => now - ledger[d][k].deletedAt > 90 * day ]_vars

\* C2 witness: a later run, after time has passed, met the deleted mark and
\* rejected the item.
C2_Witness ==
    /\ lastSave.result = "deleted"
    /\ ticks > 0
    /\ <<lastSave.folder, lastSave.key>> \in tombstoned

\* C3: once a cleanup pass has deleted the file saveFeedItem wrote for an item,
\* every later saveFeedItem call for that item is rejected and writes no file.
C3_NoResurrection ==
    [][ (SaveStep /\ <<curDir, curKey>> \in cleaned)
           => (lastSave'.result # "saved" /\ files' = files) ]_vars

\* C4 as stated: an item whose ledger entry is present with deleted = false and
\* whose file the user deleted by hand is not written again by a later run.
C4_LedgerDecides ==
    [][ (/\ SaveStep
         /\ <<curDir, curKey>> \in handDeleted
         /\ curKey \in DOMAIN ledger[curDir]
         /\ ~ledger[curDir][curKey].deleted)
           => files' = files ]_vars

\* C4 amended: an entry that is not marked deleted does not stop a save.  When
\* the entry is present with deleted = false and the file is gone, saveFeedItem
\* writes the file again and returns true, unless the pre-save retention filter
\* rejects the item (cleanup on, by datepub, gate off), in which case it marks
\* the entry deleted.
C4_FileDecides ==
    [][ (/\ SaveStep
         /\ curKey \in DOMAIN ledger[curDir]
         /\ ~ledger[curDir][curKey].deleted
         /\ curPath \notin DOMAIN files)
           => \/ /\ lastSave'.result = "saved"
                 /\ curPath \in DOMAIN files'
                 /\ ledger'[curDir][curKey].savedAt = now
              \/ /\ lastSave'.result = "expired"
                 /\ files' = files
                 /\ ledger'[curDir][curKey].deleted
                 /\ ResolvedCleanupValue(curFeed) > 0
                 /\ ResolvedDateField(curFeed) = "datepub"
                 /\ ~settings.autoCleanupCheckProperty ]_vars

\* C4 witness: a run wrote again the file of an item the user had deleted by hand.
C4_Witness ==
    /\ lastSave.result = "saved"
    /\ <<lastSave.folder, lastSave.key>> \in handDeleted

\* C5: at most one run of updateAllFeeds is active at a time, and a trigger
\* that arrives during a run changes nothing of the program's state.
C5_SingleFlight ==
    [][ /\ activeRuns' <= 1
        /\ (isUpdating /\ lastTrigger' # lastTrigger)
              => UNCHANGED << now, settings, feeds, vaultVars, runVars, lastNotice >> ]_vars

\* C5 witness: a trigger met the run in progress and was ignored.
C5_Witness == isUpdating /\ activeRuns = 1 /\ lastTrigger = "ignored" /\ pc = "items"

\* C6: a run ends only after the loop went through every feed of the filtered
\* list, in order; a feed that comes after one that threw is fetched, all its
\* items are handed to saveFeedItem and its per-feed cleanup runs (unless it
\* throws itself); and the run ends with the global cleanup step and the
\* completion notice.
C6_ErrorIsolation ==
    [][ (isUpdating /\ ~isUpdating')
           => /\ pc = "global"
              /\ lastNotice' = "RSS Update complete!"
              /\ Len(feedLog) = Len(queue)
              /\ \A i \in 1..Len(queue) :
                    /\ feedLog[i].url = queue[i]
                    /\ ((\E j \in 1..(i - 1) : feedLog[j].threw) /\ ~feedLog[i].threw)
                          => /\ feedLog[i].fetched
                             /\ feedLog[i].offered = Len(Served(queue[i]))
                             /\ feedLog[i].swept =
                                   (ResolvedCleanupValue(FeedByUrl(queue[i])) > 0) ]_vars

\* C6 witness: the first feed threw, the second was fetched and went through
\* its items, and the run is at the global cleanup.
C6_Witness ==
    /\ pc = "global"
    /\ Len(feedLog) = 2
    /\ feedLog[1].threw
    /\ feedLog[2].fetched
    /\ ~feedLog[2].threw
    /\ feedLog[2].offered = Len(Served(feedLog[2].url))

\* C7: when the resolved cleanup value is above 0, the resolved date field is
\* datepub, the gate is off and the item's publish date parses to a time before
\* the cutoff, saveFeedItem rejects the item, writes no file, and the folder's
\* ledger holds the item's link marked deleted.
C7_PreSaveFilter ==
    [][ (/\ SaveStep
         /\ ResolvedCleanupValue(curFeed) > 0
         /\ ResolvedDateField(curFeed) = "datepub"
         /\ ~settings.autoCleanupCheckProperty
         /\ DateParse(items[ii].pubDate) # NaN
         /\ DateParse(items[ii].pubDate)
               < now - toMilliseconds(ResolvedCleanupValue(curFeed),
                                      ResolvedCleanupUnit(curFeed)))
           => /\ lastSave'.result \in {"expired", "deleted"}
              /\ files' = files
              /\ items[ii].link \in DOMAIN ledger'[curDir]
              /\ ledger'[curDir][items[ii].link].deleted ]_vars

\* C7 witness: the pre-save filter rejected an item.
C7_Witness ==
    /\ lastSave.result = "expired"
    /\ lastSave.key \in DOMAIN ledger[lastSave.folder]
    /\ ledger[lastSave.folder][lastSave.key].deleted
    /\ \A p \in DOMAIN files : files[p].key # lastSave.key

\* C8: every feed whose fetch succeeded has had all its items handed to
\* saveFeedItem, whatever failed while one of them was persisted.
C8_AllItemsOffered ==
    \A i \in 1..Len(feedLog) :
       feedLog[i].fetched => feedLog[i].offered = Len(Served(feedLog[i].url))

C11_UniqueUrls ==
    \A i, j \in 1..Len(feeds) : i # j => feeds[i].url # feeds[j].url

\* The feed at index i was soft-deleted more than 15 days ago.
Stale(i) == feeds[i].deleted /\ now - feeds[i].deletedAt > 15 * day

C13_NoneAfterUnload == life = "unloaded" => timers = {}

\* The ledger write of a step on folder d, if the step made one.
WroteLedger(d) == ledger'[d] # ledger[d] \/ (d \in corrupt /\ d \notin corrupt')

\* C14: a ledger file that does not parse is read as an empty ledger and
\* nothing is thrown: saveFeedItem on such a folder never answers "deleted"
\* and never throws, the ledger it writes holds the offered item alone, and
\* the ledger a cleanup pass writes holds only the marks of the files that
\* pass deleted, each recorded as never saved.
C14_CorruptReadsEmpty ==
    [][ /\ (SaveStep /\ curDir \in corrupt)
              => /\ lastSave'.result \in {"expired", "exists", "saved"}
                 /\ WroteLedger(curDir) <=> lastSave'.result \in {"expired", "saved"}
                 /\ WroteLedger(curDir) => DOMAIN ledger'[curDir] = {curKey}
        /\ \A d \in corrupt :
              (~SaveStep /\ WroteLedger(d))
                 => /\ d \notin corrupt'
                    /\ \A k \in DOMAIN ledger'[d] :
                          ledger'[d][k] = [savedAt |-> 0, deleted |-> TRUE, deletedAt |-> now]
                    /\ DOMAIN files' \subseteq DOMAIN files
                    /\ DOMAIN files' # DOMAIN files ]_vars

\* A damaged ledger was read as empty and rewritten: the folder's ledger is
\* readable again and has lost the entry of a note the plugin saved there.
C14_Witness ==
    \E p \in DOMAIN files :
        /\ p.dir \notin corrupt
        /\ ledger[p.dir] # EmptyDb
        /\ files[p].key \notin DOMAIN ledger[p.dir]

\* C15: a ledger write drops exactly the entries marked deleted whose
\* deletedAt lies more than 90 days back, and keeps every other entry as it
\* was.
C15_PruneOnWrite ==
    [][ (arg.fn = "saveFeedDb" /\ ret'.done /\ ~ret.done)
           => LET written == ledger'[arg.folderPath]
              IN  \A k \in DOMAIN arg.db :
                     LET e == arg.db[k]
                         old == e.deleted /\ e.deletedAt # Undefined
                                   /\ now - e.deletedAt > 90 * day
                     IN  /\ old => k \notin DOMAIN written
                         /\ ~old => (k \in DOMAIN written /\ written[k] = e) ]_vars

\* A write dropped an entry and kept one whose deletion is exactly 90 days old.
C15_Witness ==
    /\ arg.fn = "saveFeedDb"
    /\ ret.done
    /\ DOMAIN arg.db # DOMAIN ledger[arg.folderPath]
    /\ \E k \in DOMAIN ledger[arg.folderPath] :
          /\ ledger[arg.folderPath][k].deleted
          /\ now - ledger[arg.folderPath][k].deletedAt = 90 * day
\* C16: whatever the requests meet, extractImageUrl returns a string and
\* downloadImageLocally returns a storage reference or the url it was given,
\* and neither throws.
C16_NeverThrows ==
    /\ (arg.fn = "extractImageUrl" /\ ret.done)
          => (~ret.threw /\ ret.value \in [kind : {"empty", "http", "//", "relative"},
                                          host : STRING, file : STRING, ext : STRING])
    /\ (arg.fn = "downloadImageLocally" /\ ret.done)
          => /\ ~ret.threw
             /\ \/ ret.value = arg.url
                \/ \E x \in {"jpg", "png"} :
                      ret.value = StorageRef(ImagePath(arg.folderPath, arg.fileName, x))

\* A page fetch that threw and a probe that threw were survived by
\* extractImageUrl, a failed request or write by downloadImageLocally.
C16_Witness ==
    /\ ret.done
    /\ ~ret.threw
    /\ \/ arg.fn = "extractImageUrl" /\ ret.requests # <<>>
             /\ (arg.page.threw \/ arg.probe.maxres.threw)
       \/ arg.fn = "downloadImageLocally" /\ ret.requests # <<>>
             /\ (arg.response.threw \/ arg.writeFails) /\ ret.value = arg.url
\* The destination downloadImageLocally computes for the call.
Destination ==
    ImagePath(arg.folderPath, arg.fileName,
              resolveImageExtension(arg.response.contentType, arg.url))

\* C17: a call whose destination already holds a file makes no request and
\* returns the reference of that file.
C17_SkipsRequest ==
    (arg.fn = "downloadImageLocally" /\ ret.done /\ StartsWithHttp(arg.url)
        /\ Destination \in arg.existing)
       => (ret.requests = <<>> /\ ret.value = StorageRef(Destination))
\* The url extractImageUrl hands to the thumbnail upgrade.
Resolved == CleanUrl(ret.candidate, arg.itemUrl)

\* C18: for a YouTube thumbnail the maxres variant is probed first and
\* returned when its probe passes, else the sd variant under the same test,
\* else the url as it was.
C18_FallbackOrder ==
    (arg.fn = "extractImageUrl" /\ ret.done /\ ret.candidate # NoUrl /\ IsYoutube(Resolved))
       => LET maxres == ReplaceThumbName(Resolved, "maxresdefault")
              sd     == ReplaceThumbName(Resolved, "sddefault")
          IN  /\ ret.value = IF ProbePasses(arg.probe.maxres) THEN maxres
                             ELSE IF ProbePasses(arg.probe.sd) THEN sd
                             ELSE Resolved
              /\ ret.requests # <<>> => Head(ret.requests) = maxres

\* C19: the candidate returned is that of the first tier, in the order
\* media-group thumbnail, root thumbnail, root media-content, enclosure, first
\* img tag, that yields a url; no tier after it is consulted; the item's page
\* is requested only when none of the five yields.
C19_PriorityChain ==
    (arg.fn = "extractImageUrl" /\ ret.done)
       => LET order  == << "group", "thumbnail", "content", "enclosure", "html" >>
              yields == {k \in 1..5 : TierCandidate(arg.item, order[k]) # NoUrl}
              first  == CHOOSE k \in yields : \A j \in yields : k <= j
              asked  == \E n \in 1..Len(ret.requests) : ret.requests[n] = arg.itemUrl
          IN  /\ yields # {}
                    => /\ ret.tier = order[first]
                       /\ ret.candidate = TierCandidate(arg.item, order[first])
                       /\ ret.consulted = SubSeq(order, 1, first)
                       /\ ~asked
              /\ yields = {}
                    => /\ ret.consulted = order
                       /\ ret.tier \in {"page", "none"}
                       /\ ret.tier = "page" => (asked /\ ret.candidate = arg.page.meta)
                       /\ asked <=> StartsWithHttp(arg.itemUrl)

\* The enclosure won over an img tag of the body, after a media-content
\* element that is no image was passed over.
C19_Witness ==
    /\ arg.fn = "extractImageUrl"
    /\ ret.done
    /\ ret.tier = "enclosure"
    /\ arg.item.img # NoUrl
    /\ arg.item.content # Absent
\* C20: when the description without its tags, its runs of white space
\* collapsed, is longer than 280 characters, descriptionShort is 280
\* characters long, the first 277 of that text followed by three dots; when it
\* is 280 characters or shorter, descriptionShort is that text.
C20_ShortLength ==
    (arg.fn = "processDescriptionShort" /\ ret.done)
       => LET text == Stripped(processDescription(arg.raw))
          IN  /\ Len(text) > 280
                    => /\ Len(ret.value) = 280
                       /\ SubSeq(ret.value, 1, 277) = SubSeq(text, 1, 277)
                       /\ SubSeq(ret.value, 278, 280) = << ".", ".", "." >>
              /\ Len(text) <= 280 => ret.value = text

\* A description of 281 characters after stripping was cut, and one of
\* exactly 280 would not be.
C20_Witness ==
    /\ arg.fn = "processDescriptionShort"
    /\ ret.done
    /\ Len(Stripped(processDescription(arg.raw))) = 281
    /\ Len(processDescription(arg.raw)) > 281
    /\ Len(ret.value) = 280
\* C21 as stated: an item whose link the ledger marks deleted is rejected
\* with the ledger load as the only step taken.
C21_LoadOnly ==
    [][ (SaveStep /\ IsDeletedInDb(loadFeedDb(Vault, curDir), curKey))
           => (lastSave'.result = "deleted" /\ lastSave'.steps = << "loadFeedDb" >>) ]_vars

\* C21 amended: such an item is rejected after the file name was rendered
\* and the destination folder ensured, which creates nothing, and the ledger
\* loaded; no frontmatter or body is rendered, no file looked up or created,
\* no image downloaded, no ledger written.
C21_ShortCircuit ==
    [][ (SaveStep /\ DbHas(loadFeedDb(Vault, curDir), curKey)
                  /\ loadFeedDb(Vault, curDir)[curKey].deleted)
           => /\ lastSave'.result = "deleted"
              /\ lastSave'.steps = << "applyTemplate fileName", "ensureFolder", "loadFeedDb" >>
              /\ UNCHANGED vaultVars ]_vars

\* An item the ledger marks deleted was offered and rejected.
C21_Witness ==
    /\ lastSave.result = "deleted"
    /\ lastSave.steps # <<>>
    /\ lastSave.key \in DOMAIN ledger[lastSave.folder]
\* A step in which a run of updateAllFeeds ends: the return at "No active
\* feeds", or the end of the try block after the feed loop.
RunEnds ==
    \/ pc = "global" /\ pc' = "idle"
    \/ /\ lastNotice' = "No active feeds to update."
       /\ lastNotice' # lastNotice \/ lastTrigger' # lastTrigger

\* C22: every run that ends with global cleanup enabled has made exactly one
\* cleanup pass over the root output folder, and the pass is made after the
\* feed loop has dealt with every feed of the run.
C22_OneGlobalPass ==
    [][ (RunEnds /\ settings.autoCleanupValue > 0)
           => /\ globalPasses' = 1
              /\ globalPasses = 0
              /\ Len(feedLog) = Len(queue) ]_vars
\* The items of the feed in hand whose processItem has not returned.
ItemsInProgress == { r.of : r \in { q \in requests : q.kind = "image" } }

\* C23: at any moment of a run at most one network request is outstanding and
\* at most one item of the feed in hand is in progress.
C23_OneAtATime ==
    /\ Cardinality(requests) <= 1
    /\ Cardinality(ItemsInProgress) <= 1
\* The step is a per-feed cleanup pass in which a deletion failed.
StuckStep ==
    /\ pc = "items"
    /\ Len(feedLog') = Len(feedLog) + 1
    /\ feedLog'[Len(feedLog')].stuck # {}

\* Whether the ledger l marks the key k deleted.
Marks(l, k) == DbHas(l, k) /\ l[k].deleted

\* C24: a cleanup pass in which deleting some files fails deletes every other
\* file it set out to delete, leaves the failing files as they were, marks no
\* ledger entry of a failing file deleted, and the run goes on with the next
\* feed or the global cleanup.
C24_FailureIsolated ==
    [][ StuckStep =>
          LET stuck == feedLog'[Len(feedLog')].stuck
              all   == Candidates(Vault, curDir, ResolvedCleanupValue(curFeed),
                           ResolvedCleanupUnit(curFeed), ResolvedDateField(curFeed))
          IN  /\ stuck \subseteq all
              /\ \A p \in all \ stuck : p \notin DOMAIN files'
              /\ \A p \in stuck :
                    /\ p \in DOMAIN files' /\ files'[p] = files[p]
                    /\ \A k \in {ReadLink(files[p]), files[p].key} :
                          Marks(ledger'[curDir], k) => Marks(ledger[curDir], k)
              /\ isUpdating'
              /\ pc' = IF fi < Len(queue) THEN "fetch" ELSE "global" ]_vars

\* A pass failed to delete one file and deleted another.
C24_Witness ==
    /\ feedLog # <<>>
    /\ \E p \in feedLog[Len(feedLog)].stuck : p \in DOMAIN files
    /\ cleaned # {}
\* C25: the link cleanupOldFiles reads back from a file that saveFeedItem
\* wrote is the key under which saveFeedItem recorded the item in the ledger.
C25_SameKey ==
    \A p \in DOMAIN files :
        (files[p].fm /\ files[p].link = YamlLink(files[p].key))
            => ReadLink(files[p]) = files[p].key
\* The step is the global cleanup pass at the end of a run.
GlobalPass == pc = "global" /\ pc' = "idle" /\ settings.autoCleanupValue > 0

\* C26: every file the global cleanup pass deletes is marked deleted in the
\* ledger of the folder the file was in, the one saveFeedItem consults: under
\* the item's key or, at least, under the link text the pass read from the file.
C26_MarkedInFeedLedger ==
    [][ GlobalPass =>
          \A p \in DOMAIN files \ DOMAIN files' :
              (files[p].fm /\ p.dir # sanitizeFolderPath(DEFAULT_folderPath))
                 => \/ Marks(ledger'[p.dir], files[p].key)
                    \/ Marks(ledger'[p.dir], ReadLink(files[p])) ]_vars
\* C27: whenever no run is in progress the guard flag is clear, whichever
\* way the last run ended, and a trigger that arrives then is not ignored.
C27_GuardReleased ==
    [][ /\ pc' = "idle" => ~isUpdating'
        /\ (pc = "idle" /\ lastTrigger' # lastTrigger) => lastTrigger' = "started" ]_vars

\* A run went through its feeds and ended on an error after the loop: the
\* cleanup pass is made, the completion notice never came, the flag is clear.
C27_Witness ==
    /\ pc = "idle"
    /\ ~isUpdating
    /\ lastNotice = "Updating RSS feeds..."
    /\ globalPasses = 1
    /\ files # EmptyDb
SaveOnExisting ==
    /\ arg.fn = "saveFeedItem"
    /\ settings' = settings
    /\ ret'.done
    /\ [dir |-> resolveFeedPath(arg.feed), name |-> FileNameOf(ret'.item)] \in DOMAIN files

Rank(url) ==
    CASE url.file = "maxresdefault" -> 3
      [] url.file = "sddefault"     -> 2
      [] OTHER                      -> 1

\* C30: the thumbnail upgrade returns a variant at least as high as the one
\* it was given, and a maxres url unchanged.
C30_NeverLowers ==
    (arg.fn = "extractImageUrl" /\ ret.done /\ ret.candidate # NoUrl /\ IsYoutube(Resolved))
       => /\ Rank(ret.value) >= Rank(Resolved)
          /\ Resolved.file = "maxresdefault" => ret.value = Resolved
====
